---- MODULE Spec2Model ----
(***************************************************************************)
(* BTC-Dashboard: the indicator library, the multi-timeframe voters, the   *)
(* weighted aggregator, the history projections and the price-history      *)
(* fetch chain and the macro calendar of src/btc_dashboard.py, the cache   *)
(* and the history endpoint of src/btc_web/app.py, and the backtest loop   *)
(* of the trend-following strategy, as a state machine.                    *)
(*                                                                         *)
(* Number encoding.  Scores are kept in tenths (0.5 is 5, -0.2 is -2),     *)
(* weights in hundredths (0.08 is 8).  A float that may be NaN is a tuple: *)
(* <<"nan">> or <<"num", n, d>> for the exact rational n/d (d > 0).        *)
(* Dictionary keys and result names that are Chinese in the source are     *)
(* written in English here (the module text is ASCII only):                *)
(*   HalvingCycle, PowerLaw, Bollinger, FearGreed, FundingRate, LongShort, *)
(*   MaxPain, BTCDominance, ETFFlow, CompanyHoldings, ExchangeReserve,     *)
(*   Hashrate, BalancedPrice, LTH(CDD); result names ETFActivity and       *)
(*   InstitutionalHoldings(proxy).                                         *)
(***************************************************************************)
EXTENDS Integers, Sequences, FiniteSets, TLC

\* pc: position in the operation under way; df: the price history;
\* src: what the external sources answer; indicators: the result dictionary;
\* total_score, recommendation: the aggregate; prev: the aggregate before a
\* re-aggregation (SpecAgg), current_price (SpecRun) or the arguments of the
\* history call (SpecHist); step: the next assignment of run_dashboard
\* (SpecRun), the Yahoo attempt (SpecFetch) or the number of requests
\* accepted (SpecWeb); contacted: the requests fetch_btc_data has made so
\* far, in order, with their outcomes; heap: the DataFrame objects the web
\* server has fetched; threads: the requests being served, each with its
\* locals; btc_data_cache, btc_data_timestamp: the module globals of
\* btc_web/app.py; now: the clock, in seconds (in days since the genesis
\* date in SpecClock); history: what the last call of get_indicator_history
\* returned.  SpecClock: prev is the outcome of the evaluation before the
\* latest one, step the number of evaluations.  SpecCalendar: heap[1] is
\* the attribute dictionary of the function fetch_macro_calendar, step the
\* number of calls, prev the attempt of the retry loop, src the last
\* response, history the calendar returned.  SpecBacktest: df is the rows of
\* the signals frame read so far, step the loop index, threads[1] the local
\* variables of the loop, history the trades log
VARIABLES pc, df, src, indicators, total_score, recommendation, prev, step,
          contacted, heap, threads, btc_data_cache, btc_data_timestamp, now,
          history

webvars ==
    <<contacted, heap, threads, btc_data_cache, btc_data_timestamp, now, history>>

vars == <<pc, df, src, indicators, total_score, recommendation, prev, step,
          webvars>>

(***************************************************************************)
(* Floats                                                                  *)
(***************************************************************************)
\* Body(x) for x the value of v: a local name whose value is computed once
Let(v, Body(_)) == CHOOSE r \in {Body(x) : x \in {v}} : TRUE

NaN == <<"nan">>

Num(n, d) == <<"num", n, d>>

RECURSIVE gcd(_, _)
gcd(a, b) ==
    IF a < 0 THEN gcd(-a, b)
    ELSE IF b < 0 THEN gcd(a, -b)
    ELSE IF b = 0 THEN (IF a = 0 THEN 1 ELSE a)
    ELSE Let(a % b, LAMBDA r : gcd(b, r))

\* the float n/d (d > 0), in lowest terms so that equal floats are equal
frac(n, d) == Let(gcd(n, d), LAMBDA g : Num(n \div g, d \div g))

isnan(x) == x[1] = "nan"

\* a Python None / a value not yet computed
None == <<"none">>

\* the web server is not running: nothing fetched, nothing cached, no request
NoServer ==
    /\ contacted = << >>
    /\ heap = << >>
    /\ threads = << >>
    /\ btc_data_cache = None
    /\ btc_data_timestamp = None
    /\ now = 0
    /\ history = None

(***************************************************************************)
(* IndicatorResult (the dataclass); color, priority, description, method   *)
(* and url are presentation only and are left out.  status is the label of *)
(* the status text; what the text interpolates is kept in detail.          *)
(***************************************************************************)
IndicatorResult(name, value, score, status) ==
    [name |-> name, value |-> value, score |-> score, status |-> status,
     detail |-> << >>]

\* a result whose status text also carries counts and a per-timeframe line
\* (the f-strings of calc_rsi and calc_macd): status is the label, detail
\* the numbers and the timeframe list formatted into it
VoteResult(name, value, score, status, count, total, timeframes) ==
    [name |-> name, value |-> value, score |-> score, status |-> status,
     detail |-> [count |-> count, total |-> total, timeframes |-> timeframes]]

(***************************************************************************)
(* The weight table, in hundredths.                                        *)
(***************************************************************************)
WEIGHTS ==
    [n \in {"Mayer Multiple", "Pi Cycle Top", "HalvingCycle", "Ahr999",
            "PowerLaw", "2-Year MA Mult", "200-Week Heatmap", "Golden Ratio",
            "RSI(14)", "MACD", "Bollinger", "FearGreed", "FundingRate",
            "LongShort", "MaxPain", "BTCDominance", "ETFFlow",
            "CompanyHoldings", "ExchangeReserve", "Hashrate", "BalancedPrice",
            "LTH(CDD)"} |->
        CASE n = "Mayer Multiple" -> 10
          [] n \in {"Pi Cycle Top", "HalvingCycle", "Ahr999", "PowerLaw",
                    "2-Year MA Mult", "200-Week Heatmap", "Golden Ratio",
                    "LTH(CDD)"} -> 8
          [] n \in {"RSI(14)", "MACD", "FearGreed"} -> 6
          [] n \in {"Bollinger", "FundingRate", "LongShort"} -> 5
          [] n \in {"MaxPain", "BalancedPrice"} -> 3
          [] n \in {"BTCDominance", "ETFFlow"} -> 2
          [] n \in {"CompanyHoldings", "Hashrate"} -> 1
          [] n = "ExchangeReserve" -> 0]

(***************************************************************************)
(* calculate_total_score: the loop body, the loop, the normalisation and   *)
(* the recommendation cutoffs.                                             *)
(***************************************************************************)
\* mutant: an unavailable (NaN) indicator is counted as a zero vote
AccumulateZeroed(acc, name, result) ==
    IF name \in DOMAIN WEIGHTS
    THEN [total |-> acc.total
                      + (IF isnan(result.value) THEN 0
                         ELSE WEIGHTS[name] * result.score),
          weight_sum |-> acc.weight_sum + WEIGHTS[name]]
    ELSE acc

\* mutant: the isnan test is missing
AccumulateIgnoringNaN(acc, name, result) ==
    IF name \in DOMAIN WEIGHTS
    THEN [total |-> acc.total + WEIGHTS[name] * result.score,
          weight_sum |-> acc.weight_sum + WEIGHTS[name]]
    ELSE acc

\* one iteration of `for name, result in indicators.items()`
Accumulate(acc, name, result) ==
    IF ~isnan(result.value) /\ name \in DOMAIN WEIGHTS
    THEN [total |-> acc.total + WEIGHTS[name] * result.score,
          weight_sum |-> acc.weight_sum + WEIGHTS[name]]
    ELSE acc

RECURSIVE AccumulateAll(_, _, _)
AccumulateAll(acc, ind, names) ==
    IF names = {} THEN acc
    ELSE LET n == CHOOSE x \in names : TRUE
         IN  AccumulateAll(Accumulate(acc, n, ind[n]), ind, names \ {n})

\* mutant: the weighted sum is not divided by the sum of the weights
NormalizeUnweighted(acc) == [num |-> acc.total, den |-> 1]

\* normalized_score as the exact rational num/den, in tenths
Normalize(acc) ==
    IF acc.weight_sum > 0
    THEN [num |-> acc.total, den |-> acc.weight_sum]
    ELSE [num |-> 0, den |-> 1]

\* x >= c for the rational x and the cutoff c (tenths)
AtLeast(x, c) == x.num >= c * x.den

\* mutant: the strong-buy cutoff excludes the cutoff value itself
RecommendStrict(x) ==
    IF x.num > 8 * x.den THEN "Strong Buy"
    ELSE IF AtLeast(x, 4) THEN "Buy"
    ELSE IF AtLeast(x, 1) THEN "Accumulate"
    ELSE IF AtLeast(x, -1) THEN "Hold"
    ELSE IF AtLeast(x, -4) THEN "Reduce"
    ELSE IF AtLeast(x, -8) THEN "Sell"
    ELSE "Strong Sell"

Recommend(x) ==
    IF AtLeast(x, 8) THEN "Strong Buy"
    ELSE IF AtLeast(x, 4) THEN "Buy"
    ELSE IF AtLeast(x, 1) THEN "Accumulate"
    ELSE IF AtLeast(x, -1) THEN "Hold"
    ELSE IF AtLeast(x, -4) THEN "Reduce"
    ELSE IF AtLeast(x, -8) THEN "Sell"
    ELSE "Strong Sell"

calculate_total_score(ind) ==
    LET acc == AccumulateAll([total |-> 0, weight_sum |-> 0], ind, DOMAIN ind)
        normalized_score == Normalize(acc)
    IN  [score |-> normalized_score,
         recommendation |-> Recommend(normalized_score)]

\* the dictionary `ind` with ind[key] = result (insert or overwrite)
Put(ind, key, result) ==
    [k \in DOMAIN ind \cup {key} |-> IF k = key THEN result ELSE ind[k]]

EmptyDict == [k \in {} |-> None]

(***************************************************************************)
(* The price series (the DataFrame with the one column 'price').  A series *)
(* is stored run-length encoded: a sequence of segments [n, p], n >= 1     *)
(* consecutive daily rows of price p >= 1, oldest first.  Every operator   *)
(* below computes what the pandas call computes on the expanded rows.      *)
(***************************************************************************)
RECURSIVE len(_)
len(s) == IF s = << >> THEN 0 ELSE s[1].n + len(Tail(s))

\* mutant: the first k rows (df.head) in place of the last k
RECURSIVE tail_from_start(_, _)
tail_from_start(s, k) ==
    IF k <= 0 \/ s = << >> THEN << >>
    ELSE IF s[1].n >= k THEN <<[n |-> k, p |-> s[1].p]>>
    ELSE <<s[1]>> \o tail_from_start(Tail(s), k - s[1].n)

\* s[-k:] as rows, k <= len(s), kept run-length encoded
RECURSIVE tail(_, _)
tail(s, k) ==
    IF k <= 0 \/ s = << >> THEN << >>
    ELSE LET last == s[Len(s)]
             front == SubSeq(s, 1, Len(s) - 1)
         IN  IF last.n >= k THEN <<[n |-> k, p |-> last.p]>>
             ELSE Append(tail(front, k - last.n), last)

\* s['price'].iloc[-1]
last_price(s) == s[Len(s)].p

\* s['price'].iloc[i - 1], 1 <= i <= len(s)
RECURSIVE price_at(_, _)
price_at(s, i) == IF i <= s[1].n THEN s[1].p ELSE price_at(Tail(s), i - s[1].n)

RECURSIVE sum(_)
sum(s) == IF s = << >> THEN 0 ELSE s[1].n * s[1].p + sum(Tail(s))

RECURSIVE sum_sq(_)
sum_sq(s) == IF s = << >> THEN 0 ELSE s[1].n * s[1].p * s[1].p + sum_sq(Tail(s))

\* s['price'].rolling(window).mean().iloc[-1]: NaN before `window` rows exist
rolling_mean_last(s, window) ==
    IF len(s) < window THEN NaN ELSE frac(sum(tail(s, window)), window)

\* df.iloc[-1, price] = price: the last row overwritten
set_last(s, price) ==
    LET last == s[Len(s)]
        front == SubSeq(s, 1, Len(s) - 1)
    IN  IF last.p = price THEN s
        ELSE IF last.n = 1 THEN Append(front, [n |-> 1, p |-> price])
        ELSE front \o <<[n |-> last.n - 1, p |-> last.p], [n |-> 1, p |-> price]>>

(***************************************************************************)
(* Float comparisons and arithmetic, exact on rationals; NaN propagates    *)
(* through arithmetic and makes every comparison False.                    *)
(***************************************************************************)
\* a < b
lt(a, b) ==
    /\ ~isnan(a)
    /\ ~isnan(b)
    /\ LET g == gcd(a[3], b[3]) IN a[2] * (b[3] \div g) < b[2] * (a[3] \div g)

\* a <= b
le(a, b) ==
    /\ ~isnan(a)
    /\ ~isnan(b)
    /\ LET g == gcd(a[3], b[3]) IN a[2] * (b[3] \div g) <= b[2] * (a[3] \div g)

\* a > b
gt(a, b) == lt(b, a)

\* a >= b
ge(a, b) == le(b, a)

\* a * b
mul(a, b) ==
    IF isnan(a) \/ isnan(b) THEN NaN
    ELSE LET g1 == gcd(a[2], b[3])
             g2 == gcd(b[2], a[3])
         IN  frac((a[2] \div g1) * (b[2] \div g2), (a[3] \div g2) * (b[3] \div g1))

\* a * n / d
scale(a, n, d) == mul(a, frac(n, d))

\* a / b, b > 0
div(a, b) == IF isnan(a) \/ isnan(b) THEN NaN ELSE mul(a, Num(b[3], b[2]))

\* a - b
sub(a, b) ==
    IF isnan(a) \/ isnan(b) THEN NaN
    ELSE LET g == gcd(a[3], b[3])
         IN  frac(a[2] * (b[3] \div g) - b[2] * (a[3] \div g), (a[3] \div g) * b[3])

\* a + b
add(a, b) ==
    IF isnan(a) \/ isnan(b) THEN NaN
    ELSE LET g == gcd(a[3], b[3])
         IN  frac(a[2] * (b[3] \div g) + b[2] * (a[3] \div g), (a[3] \div g) * b[3])

(***************************************************************************)
(* Window-based indicators                                                 *)
(***************************************************************************)
calc_two_year_ma_multiplier(s) ==
    IF len(s) < 730
    THEN IndicatorResult("2-Year MA Mult", frac(0, 1), 0, "insufficient data")
    ELSE LET current_price == frac(last_price(s), 1)
             ma2y == rolling_mean_last(s, 730)
             ma2y_x5 == scale(ma2y, 5, 1)
             r == IF lt(current_price, ma2y) THEN <<10, "below green line">>
                  ELSE IF gt(current_price, ma2y_x5) THEN <<-10, "above red line">>
                  ELSE IF lt(current_price, scale(ma2y, 3, 2)) THEN <<5, "near buy zone">>
                  ELSE IF gt(current_price, scale(ma2y_x5, 4, 5)) THEN <<-5, "near sell zone">>
                  ELSE <<0, "range">>
         IN  IndicatorResult("2-Year MA Mult", div(current_price, ma2y), r[1], r[2])

calc_200w_ma_heatmap(s) ==
    IF len(s) < 1400
    THEN IndicatorResult("200-Week Heatmap", frac(0, 1), 0, "insufficient data")
    ELSE LET current_price == frac(last_price(s), 1)
             ma200w == rolling_mean_last(s, 1400)
             pct_diff == div(sub(current_price, ma200w), ma200w)
             r == IF lt(pct_diff, frac(15, 100)) THEN <<10, "bottom zone">>
                  ELSE IF lt(pct_diff, frac(5, 10)) THEN <<5, "undervalued zone">>
                  ELSE IF gt(pct_diff, frac(3, 1)) THEN <<-10, "extreme heat zone">>
                  ELSE IF gt(pct_diff, frac(15, 10)) THEN <<-5, "overheated zone">>
                  ELSE <<0, "neutral zone">>
         IN  IndicatorResult("200-Week Heatmap", scale(pct_diff, 100, 1), r[1], r[2])

calc_golden_ratio_multiplier(s) ==
    IF len(s) < 350
    THEN IndicatorResult("Golden Ratio", frac(0, 1), 0, "insufficient data")
    ELSE LET current_price == frac(last_price(s), 1)
             ma350 == rolling_mean_last(s, 350)
             r == IF gt(current_price, scale(ma350, 3, 1)) THEN <<-10, "above x3.0">>
                  ELSE IF gt(current_price, scale(ma350, 2, 1)) THEN <<-5, "above x2.0">>
                  ELSE IF gt(current_price, scale(ma350, 16, 10)) THEN <<0, "above x1.6">>
                  ELSE IF lt(current_price, ma350) THEN <<10, "below 350DMA">>
                  ELSE <<10, "350DMA to x1.6">>
         IN  IndicatorResult("Golden Ratio", div(current_price, ma350), r[1], r[2])

\* mutant: the crossing test excludes equality
pi_cycle_score_strict(ma111, ma350x2, gap_pct) ==
    IF gt(ma111, ma350x2) THEN <<-10, "crossed, top signal">>
    ELSE IF le(gap_pct, frac(20, 1)) THEN <<0, "near crossing">>
    ELSE <<10, "safe">>

\* the scoring if/elif/else of calc_pi_cycle
pi_cycle_score(ma111, ma350x2, gap_pct) ==
    IF ge(ma111, ma350x2) THEN <<-10, "crossed, top signal">>
    ELSE IF le(gap_pct, frac(20, 1)) THEN <<0, "near crossing">>
    ELSE <<10, "safe">>

calc_pi_cycle(s) ==
    LET ma111 == rolling_mean_last(s, 111)
        ma350x2 == scale(rolling_mean_last(s, 350), 2, 1)
        gap_pct == scale(div(sub(ma350x2, ma111), ma350x2), 100, 1)
        r == pi_cycle_score(ma111, ma350x2, gap_pct)
    IN  IndicatorResult("Pi Cycle Top", gap_pct, r[1], r[2])

calc_balanced_price(s) ==
    IF len(s) < 350
    THEN IndicatorResult("BalancedPrice", NaN, 0, "insufficient data")
    ELSE LET current_price == frac(last_price(s), 1)
             ma_150 == rolling_mean_last(s, 150)
             ma_350 == rolling_mean_last(s, 350)
             balanced_price == scale(add(ma_150, ma_350), 1, 2)
             ratio == IF gt(balanced_price, frac(0, 1))
                      THEN div(current_price, balanced_price) ELSE frac(0, 1)
             r == IF lt(ratio, frac(1, 1)) THEN <<10, "below balanced">>
                  ELSE IF lt(ratio, frac(15, 10)) THEN <<5, "normal, low side">>
                  ELSE IF lt(ratio, frac(2, 1)) THEN <<0, "normal range">>
                  ELSE IF lt(ratio, frac(3, 1)) THEN <<-5, "high">>
                  ELSE <<-10, "severely overvalued">>
         IN  IndicatorResult("BalancedPrice", balanced_price, r[1], r[2])

calc_mayer_multiple(s) ==
    IF len(s) < 200
    THEN IndicatorResult("Mayer Multiple", NaN, 0, "insufficient data")
    ELSE LET mm == div(frac(last_price(s), 1), rolling_mean_last(s, 200))
             r == IF lt(mm, frac(6, 10)) THEN <<10, "extremely undervalued">>
                  ELSE IF lt(mm, frac(11, 10)) THEN <<5, "undervalued">>
                  ELSE IF gt(mm, frac(24, 10)) THEN <<-10, "extremely overvalued">>
                  ELSE IF gt(mm, frac(18, 10)) THEN <<-5, "overvalued">>
                  ELSE <<0, "fair value">>
         IN  IndicatorResult("Mayer Multiple", mm, r[1], r[2])

(***************************************************************************)
(* calc_bollinger_bands(period = 20, std_dev = 2).  With S and Q the sum   *)
(* and the sum of squares of the last 20 prices, a = 20*price - S and      *)
(* V = 20*Q - S*S:  mean = S/20, std^2 = V/380 (pandas' sample std), so    *)
(*   price >= upper   iff  a >= 0 and 19*a*a >= 80*V,                      *)
(*   price <= lower   iff  a <= 0 and 19*a*a >= 80*V,                      *)
(*   position > 80    iff  a > 0 and 95*a*a > 144*V,                       *)
(*   position < 20    iff  a < 0 and 95*a*a > 144*V.                       *)
(* The value (position, 0..100) is kept to the band it falls in.           *)
(***************************************************************************)
calc_bollinger_bands(s) ==
    IF len(s) < 20
    THEN IndicatorResult("Bollinger", NaN, 0, "insufficient data")
    ELSE LET w == tail(s, 20)
             a == 20 * last_price(s) - sum(w)
             V == 20 * sum_sq(w) - sum(w) * sum(w)
             band_width_positive == V > 0
             r == IF a >= 0 /\ 19 * a * a >= 80 * V THEN <<-5, "touches upper band", 100>>
                  ELSE IF a <= 0 /\ 19 * a * a >= 80 * V THEN <<5, "touches lower band", 0>>
                  ELSE IF a > 0 /\ 95 * a * a > 144 * V THEN <<-3, "near upper band", 90>>
                  ELSE IF a < 0 /\ 95 * a * a > 144 * V THEN <<3, "near lower band", 10>>
                  ELSE <<0, "middle of the channel", 50>>
             position == IF band_width_positive THEN frac(r[3], 1) ELSE frac(50, 1)
         IN  IndicatorResult("Bollinger", position, r[1], r[2])

(***************************************************************************)
(* Resampling.  resample(rule).last() keeps the last row of every calendar *)
(* bin, the unfinished last bin included.  Rows are consecutive days and   *)
(* the first row opens a bin; a bin is `days` rows long (7 for 'W', 30 for *)
(* 'ME', 365 for 'YE': calendar months and years are taken at these fixed  *)
(* lengths).                                                               *)
(***************************************************************************)
RECURSIVE resample_from(_, _, _, _)
resample_from(s, days, before, total) ==
    IF s = << >> THEN << >>
    ELSE LET upto == before + s[1].n
             ends == (upto \div days) - (before \div days)
             partial == IF upto = total /\ total % days # 0 THEN 1 ELSE 0
             rest == resample_from(Tail(s), days, upto, total)
         IN  IF ends + partial > 0
             THEN <<[n |-> ends + partial, p |-> s[1].p]>> \o rest
             ELSE rest

resample_last(s, days) == resample_from(s, days, 0, len(s))

(***************************************************************************)
(* calc_rsi                                                                *)
(***************************************************************************)
\* sum over the last `period` differences of max(sign * delta, 0)
RECURSIVE moves(_, _, _, _)
moves(s, i, period, sign) ==
    IF period = 0 THEN 0
    ELSE LET delta == price_at(s, i) - price_at(s, i - 1)
             m == IF sign * delta > 0 THEN sign * delta ELSE 0
         IN  m + moves(s, i - 1, period - 1, sign)

\* rsi.iloc[-1] for a series of at least period + 1 rows:
\* avg_gain / avg_loss is inf for a zero loss and NaN for 0 / 0
rsi_last(s, period) ==
    LET gain == moves(s, len(s), period, 1)
        loss == moves(s, len(s), period, -1)
    IN  IF gain = 0 /\ loss = 0 THEN NaN
        ELSE frac(100 * gain, gain + loss)

\* `return None` of a single-timeframe formula, and `if result:`
NoResult == [trend |-> "none"]

truthy(result) == result.trend # "none"

\* mutant: a series that yields no RSI is reported as a neutral timeframe
calculate_single_rsi_neutral(s, period) ==
    IF len(s) < period + 1 THEN [rsi |-> NaN, trend |-> "neutral", score |-> 0]
    ELSE Let(rsi_last(s, period), LAMBDA current_rsi :
             IF isnan(current_rsi)
             THEN [rsi |-> NaN, trend |-> "neutral", score |-> 0]
             ELSE IF ge(current_rsi, frac(80, 1))
             THEN [rsi |-> current_rsi, trend |-> "overbought", score |-> -10]
             ELSE IF ge(current_rsi, frac(70, 1))
             THEN [rsi |-> current_rsi, trend |-> "overbought", score |-> -5]
             ELSE IF le(current_rsi, frac(20, 1))
             THEN [rsi |-> current_rsi, trend |-> "oversold", score |-> 10]
             ELSE IF le(current_rsi, frac(30, 1))
             THEN [rsi |-> current_rsi, trend |-> "oversold", score |-> 5]
             ELSE [rsi |-> current_rsi, trend |-> "neutral", score |-> 0])

calculate_single_rsi(s, period) ==
    IF len(s) < period + 1 THEN NoResult
    ELSE Let(rsi_last(s, period), LAMBDA current_rsi :
             IF isnan(current_rsi) THEN NoResult
             ELSE IF ge(current_rsi, frac(80, 1))
             THEN [rsi |-> current_rsi, trend |-> "overbought", score |-> -10]
             ELSE IF ge(current_rsi, frac(70, 1))
             THEN [rsi |-> current_rsi, trend |-> "overbought", score |-> -5]
             ELSE IF le(current_rsi, frac(20, 1))
             THEN [rsi |-> current_rsi, trend |-> "oversold", score |-> 10]
             ELSE IF le(current_rsi, frac(30, 1))
             THEN [rsi |-> current_rsi, trend |-> "oversold", score |-> 5]
             ELSE [rsi |-> current_rsi, trend |-> "neutral", score |-> 0])

\* `if result: results[tf] = result; count; total_score += score`
rsi_add(results, tf, result) ==
    Let(result, LAMBDA r :
        IF ~truthy(r) THEN results
        ELSE Append(results, [tf |-> tf, rsi |-> r.rsi, trend |-> r.trend,
                              score |-> r.score]))

\* the six timeframe blocks, in order
rsi_results(s, period) ==
    LET daily == rsi_add(<< >>, "1D", calculate_single_rsi(s, period))
        h4 == IF len(s) >= 70
              THEN rsi_add(daily, "4H",
                           calculate_single_rsi(tail(s, (len(s) \div 6) * 6), period))
              ELSE daily
        h12 == IF len(s) >= 70
               THEN rsi_add(h4, "12H",
                            calculate_single_rsi(tail(s, len(s) \div 2), period))
               ELSE h4
        weekly_prices == resample_last(s, 7)
        weekly == IF len(weekly_prices) >= period + 1
                  THEN rsi_add(h12, "1W", calculate_single_rsi(weekly_prices, period))
                  ELSE h12
        monthly_prices == resample_last(s, 30)
        monthly == IF len(monthly_prices) >= period + 1
                   THEN rsi_add(weekly, "1M", calculate_single_rsi(monthly_prices, period))
                   ELSE weekly
        yearly_prices == resample_last(s, 365)
        yearly_period == IF period < len(yearly_prices) - 1 THEN period
                         ELSE len(yearly_prices) - 1
    IN  IF len(yearly_prices) >= 5
        THEN rsi_add(monthly, "1Y", calculate_single_rsi(yearly_prices, yearly_period))
        ELSE monthly

\* how many of the recorded timeframes have the trend t
count_trend(results, t) ==
    Cardinality({i \in 1..Len(results) : results[i].trend = t})

RECURSIVE sum_field(_)
sum_field(results) ==
    IF results = << >> THEN 0 ELSE results[1].score + sum_field(Tail(results))

\* mutant: the 0.8 share is compared with > instead of >=
rsi_vote_strict(overbought_count, oversold_count, neutral_count, total_timeframes) ==
    IF total_timeframes = 0 THEN <<0, "insufficient data", 0>>
    ELSE IF overbought_count > oversold_count /\ overbought_count > neutral_count
    THEN IF overbought_count * 10 > total_timeframes * 8
         THEN <<-10, "overbought on most timeframes", overbought_count>>
         ELSE <<-5, "leaning overbought", overbought_count>>
    ELSE IF oversold_count > overbought_count /\ oversold_count > neutral_count
    THEN IF oversold_count * 10 > total_timeframes * 8
         THEN <<10, "oversold on most timeframes", oversold_count>>
         ELSE <<5, "leaning oversold", oversold_count>>
    ELSE <<0, "neutral on most timeframes", neutral_count>>

\* the summary: <<score, status label, the count shown in the status>>
rsi_vote(overbought_count, oversold_count, neutral_count, total_timeframes) ==
    IF total_timeframes = 0 THEN <<0, "insufficient data", 0>>
    ELSE IF overbought_count > oversold_count /\ overbought_count > neutral_count
    THEN IF overbought_count * 10 >= total_timeframes * 8
         THEN <<-10, "overbought on most timeframes", overbought_count>>
         ELSE <<-5, "leaning overbought", overbought_count>>
    ELSE IF oversold_count > overbought_count /\ oversold_count > neutral_count
    THEN IF oversold_count * 10 >= total_timeframes * 8
         THEN <<10, "oversold on most timeframes", oversold_count>>
         ELSE <<5, "leaning oversold", oversold_count>>
    ELSE <<0, "neutral on most timeframes", neutral_count>>

calc_rsi(s, period) ==
    IF len(s) < period + 1
    THEN IndicatorResult("RSI", NaN, 0, "insufficient data")
    ELSE Let(rsi_results(s, period), LAMBDA results :
             LET v == rsi_vote(count_trend(results, "overbought"),
                               count_trend(results, "oversold"),
                               count_trend(results, "neutral"), Len(results))
             IN  VoteResult("RSI", frac(sum_field(results), 10), v[1], v[2], v[3],
                            Len(results), results))

(***************************************************************************)
(* calc_macd.  The EMA arithmetic of calculate_single_macd is not          *)
(* reproduced: what it returns on a series of at least 35 rows is an input *)
(* (one of the six signals); its length guard is exact.  Strengths are in  *)
(* halves (2 is 4, 0.5 is 1).  A fetched OKX kline series is represented   *)
(* by the number of closes it holds; None is a failed fetch.               *)
(***************************************************************************)
GoldenCross == [signal |-> "golden cross", trend |-> "bull", strength |-> 4]

DeathCross == [signal |-> "death cross", trend |-> "bear", strength |-> 4]

BullStronger == [signal |-> "bull strengthening", trend |-> "bull", strength |-> 2]

BullWeaker == [signal |-> "bull weakening", trend |-> "bull", strength |-> 1]

BearStronger == [signal |-> "bear strengthening", trend |-> "bear", strength |-> 2]

BearWeaker == [signal |-> "bear weakening", trend |-> "bear", strength |-> 1]

MacdSignals == {GoldenCross, DeathCross, BullStronger, BullWeaker, BearStronger, BearWeaker}

calculate_single_macd(rows, signal) ==
    IF rows < 35 THEN NoResult ELSE signal

\* mutant: a bearish timeframe is recorded but not counted
add_result_uncounted(st0, tf_name, result) ==
    Let(st0, LAMBDA st :
        IF ~truthy(result) THEN st
        ELSE [results |-> Append(st.results, [tf |-> tf_name, signal |-> result.signal,
                                              trend |-> result.trend]),
              bullish_count |-> st.bullish_count
                                + (IF result.trend = "bull" THEN 1 ELSE 0),
              bearish_count |-> st.bearish_count,
              total_strength |-> st.total_strength + result.strength])

\* add_result: st is [results, bullish_count, bearish_count, total_strength]
add_result(st0, tf_name, result) ==
    Let(st0, LAMBDA st :
        IF ~truthy(result) THEN st
        ELSE IF result.trend = "bull"
        THEN [results |-> Append(st.results, [tf |-> tf_name, signal |-> result.signal,
                                              trend |-> result.trend]),
              bullish_count |-> st.bullish_count + 1,
              bearish_count |-> st.bearish_count,
              total_strength |-> st.total_strength + result.strength]
        ELSE [results |-> Append(st.results, [tf |-> tf_name, signal |-> result.signal,
                                              trend |-> result.trend]),
              bullish_count |-> st.bullish_count,
              bearish_count |-> st.bearish_count + 1,
              total_strength |-> st.total_strength - result.strength])

\* what fetch_okx_kline returns on success: a series of `rows` closes
Kline(rows) == <<"rows", rows>>

\* the five timeframe blocks, in order; okx4h and okx12h are what
\* fetch_okx_kline returned, formula[tf] what the formula yields on tf
macd_results(s, okx4h, okx12h, formula) ==
    LET st0 == [results |-> << >>, bullish_count |-> 0, bearish_count |-> 0,
                total_strength |-> 0]
        st1 == IF okx4h # None
               THEN add_result(st0, "4H", calculate_single_macd(okx4h[2], formula["4H"]))
               ELSE st0
        st2 == IF okx12h # None
               THEN add_result(st1, "12H", calculate_single_macd(okx12h[2], formula["12H"]))
               ELSE st1
        st3 == add_result(st2, "1D", calculate_single_macd(len(s), formula["1D"]))
        weekly_rows == len(resample_last(s, 7))
        st4 == IF weekly_rows >= 35
               THEN add_result(st3, "1W", calculate_single_macd(weekly_rows, formula["1W"]))
               ELSE st3
        monthly_rows == len(resample_last(s, 30))
    IN  IF monthly_rows >= 35
        THEN add_result(st4, "1M", calculate_single_macd(monthly_rows, formula["1M"]))
        ELSE st4

\* the summary: <<score, status label, the first count shown in the status>>
macd_vote(bullish_count, bearish_count, total_timeframes) ==
    IF total_timeframes = 0 THEN <<0, "insufficient data", 0>>
    ELSE IF bullish_count > bearish_count
    THEN IF bullish_count * 10 >= total_timeframes * 8
         THEN <<10, "strong bull", bullish_count>>
         ELSE IF bullish_count * 10 >= total_timeframes * 5
         THEN <<5, "leaning bull", bullish_count>>
         ELSE <<2, "divergence", bullish_count>>
    ELSE IF bearish_count > bullish_count
    THEN IF bearish_count * 10 >= total_timeframes * 8
         THEN <<-10, "strong bear", bearish_count>>
         ELSE IF bearish_count * 10 >= total_timeframes * 5
         THEN <<-5, "leaning bear", bearish_count>>
         ELSE <<-2, "divergence", bearish_count>>
    ELSE <<0, "balanced", bullish_count>>

calc_macd(s, okx4h, okx12h, formula) ==
    IF len(s) < 35
    THEN IndicatorResult("MACD", NaN, 0, "insufficient data")
    ELSE Let(macd_results(s, okx4h, okx12h, formula), LAMBDA st :
             LET v == macd_vote(st.bullish_count, st.bearish_count, Len(st.results))
             IN  VoteResult("MACD", frac(st.total_strength, 2), v[1], v[2], v[3],
                            Len(st.results), st.results))

(***************************************************************************)
(* Clock- and curve-based indicators.  The clock enters as the number of   *)
(* days since the last halving; the values of the fitted power curves      *)
(* (10 ** (B * log10(days) + A)) and of the geometric mean enter as        *)
(* inputs, in price units.                                                 *)
(***************************************************************************)
calc_halving_cycle(days_since_halving) ==
    LET months_since == frac(days_since_halving * 100, 3044)
        r == IF le(months_since, frac(12, 1)) THEN <<10, "bull market start">>
             ELSE IF le(months_since, frac(24, 1)) THEN <<0, "mid cycle">>
             ELSE <<-10, "late cycle">>
    IN  IndicatorResult("HalvingCycle", months_since, r[1], r[2])

\* the smallest price of a window
RECURSIVE min_price(_)
min_price(w) ==
    IF Len(w) = 1 THEN w[1].p
    ELSE LET m == min_price(Tail(w)) IN IF w[1].p < m THEN w[1].p ELSE m

\* np.exp(np.mean(np.log(recent_200))): the price itself on a flat window;
\* otherwise a value between the smallest price and the arithmetic mean,
\* taken geo quarters of the way from the one to the other
geometric_mean(w, geo) ==
    LET lo == frac(min_price(w), 1)
        mean == frac(sum(w), len(w))
    IN  add(lo, scale(sub(mean, lo), geo, 4))

\* calc_ahr999 with the band bounds moved to the lower band (<= for <)
calc_ahr999_inclusive(s, geo, exp_growth_value) ==
    LET recent_200 == tail(s, IF len(s) < 200 THEN len(s) ELSE 200)
        current_price == frac(last_price(s), 1)
        dca_cost_200 == geometric_mean(recent_200, geo)
        ahr999 == IF gt(dca_cost_200, frac(0, 1)) /\ gt(exp_growth_value, frac(0, 1))
                  THEN mul(div(current_price, dca_cost_200),
                           div(current_price, exp_growth_value))
                  ELSE frac(1, 1)
        r == IF le(ahr999, frac(45, 100)) THEN <<10, "bottom zone">>
             ELSE IF le(ahr999, frac(12, 10)) THEN <<0, "DCA zone">>
             ELSE <<-10, "take-profit zone">>
    IN  IndicatorResult("Ahr999", ahr999, r[1], r[2])

calc_ahr999(s, geo, exp_growth_value) ==
    LET recent_200 == tail(s, IF len(s) < 200 THEN len(s) ELSE 200)
        current_price == frac(last_price(s), 1)
        dca_cost_200 == geometric_mean(recent_200, geo)
        ahr999 == IF gt(dca_cost_200, frac(0, 1)) /\ gt(exp_growth_value, frac(0, 1))
                  THEN mul(div(current_price, dca_cost_200),
                           div(current_price, exp_growth_value))
                  ELSE frac(1, 1)
        r == IF lt(ahr999, frac(45, 100)) THEN <<10, "bottom zone">>
             ELSE IF lt(ahr999, frac(12, 10)) THEN <<0, "DCA zone">>
             ELSE <<-10, "take-profit zone">>
    IN  IndicatorResult("Ahr999", ahr999, r[1], r[2])

\* 10 ** 0.5, to three decimals
Sqrt10 == frac(3162, 1000)

\* calc_power_law with the lower half of the corridor mapped to 0..1
calc_power_law_unshifted(s, fair_value) ==
    LET upper_band == mul(fair_value, Sqrt10)
        lower_band == div(fair_value, Sqrt10)
        current_price == frac(last_price(s), 1)
        position == IF lt(current_price, fair_value)
                    THEN div(sub(current_price, lower_band),
                             sub(fair_value, lower_band))
                    ELSE div(sub(current_price, fair_value),
                             sub(upper_band, fair_value))
        r == IF lt(current_price, lower_band) THEN <<10, "below lower band">>
             ELSE IF gt(current_price, upper_band) THEN <<-10, "above upper band">>
             ELSE <<0, "inside the corridor">>
    IN  IndicatorResult("PowerLaw", position, r[1], r[2])

calc_power_law(s, fair_value) ==
    LET upper_band == mul(fair_value, Sqrt10)
        lower_band == div(fair_value, Sqrt10)
        current_price == frac(last_price(s), 1)
        position == IF lt(current_price, fair_value)
                    THEN sub(div(sub(current_price, lower_band),
                                 sub(fair_value, lower_band)), frac(1, 1))
                    ELSE div(sub(current_price, fair_value),
                             sub(upper_band, fair_value))
        r == IF lt(current_price, lower_band) THEN <<10, "below lower band">>
             ELSE IF gt(current_price, upper_band) THEN <<-10, "above upper band">>
             ELSE <<0, "inside the corridor">>
    IN  IndicatorResult("PowerLaw", position, r[1], r[2])

(***************************************************************************)
(* Scalar-snapshot indicators.  What a source returned is None (an         *)
(* exception, a status other than 200, a payload without the field) or     *)
(* Ok(v), the scalar read from the payload.                                *)
(***************************************************************************)
Ok(v) == <<"ok", v>>

\* value: the index, 0..100
calc_fear_greed_index(response) ==
    IF response = None
    THEN IndicatorResult("FearGreed", NaN, 0, "API unavailable")
    ELSE LET value == response[2]
             r == IF value <= 25 THEN <<10, "extreme fear">>
                  ELSE IF value <= 45 THEN <<5, "fear">>
                  ELSE IF value <= 55 THEN <<0, "neutral">>
                  ELSE IF value <= 75 THEN <<-5, "greed">>
                  ELSE <<-10, "extreme greed">>
         IN  IndicatorResult("FearGreed", frac(value, 1), r[1], r[2])

\* the first source that yields a rate, in the order Binance, CoinGecko,
\* Bybit; rates in hundredths of a percent
funding_rate_of(binance, coingecko, bybit) ==
    IF binance # None THEN binance
    ELSE IF coingecko # None THEN coingecko
    ELSE bybit

calc_funding_rate(binance, coingecko, bybit) ==
    LET rate == funding_rate_of(binance, coingecko, bybit)
    IN  IF rate = None
        THEN IndicatorResult("FundingRate", frac(0, 1), 0, "source connection failed (SSL)")
        ELSE LET r == IF rate[2] > 10 THEN <<-10, "overheated">>
                      ELSE IF rate[2] > 3 THEN <<-5, "leaning long">>
                      ELSE IF rate[2] > -3 THEN <<0, "neutral">>
                      ELSE IF rate[2] > -10 THEN <<5, "leaning short">>
                      ELSE <<10, "panic">>
             IN  IndicatorResult("FundingRate", frac(rate[2], 100), r[1], r[2])

\* ratios in hundredths; OKX first, Binance as the fallback
calc_long_short_ratio(okx, binance) ==
    LET ratio == IF okx # None THEN okx ELSE binance
    IN  IF ratio # None
        THEN LET r == IF ratio[2] > 200 THEN <<-10, "extremely long">>
                      ELSE IF ratio[2] > 120 THEN <<-5, "leaning long">>
                      ELSE IF ratio[2] > 80 THEN <<0, "balanced">>
                      ELSE IF ratio[2] > 50 THEN <<5, "leaning short">>
                      ELSE <<10, "extremely short">>
             IN  IndicatorResult("LongShort", frac(ratio[2], 100), r[1], r[2])
        ELSE IndicatorResult("LongShort", NaN, 0, "API unavailable")

\* btc_d in percent
calc_btc_dominance(response) ==
    IF response = None
    THEN IndicatorResult("BTCDominance", NaN, 0, "API unavailable")
    ELSE LET btc_d == response[2]
             r == IF btc_d > 55 THEN <<10, "strong">>
                  ELSE IF btc_d > 45 THEN <<0, "ranging">>
                  ELSE <<-5, "weak">>
         IN  IndicatorResult("BTCDominance", frac(btc_d, 1), r[1], r[2])

\* fetch_etf_volume: etfs[i] is what the two attempts for the i-th ETF gave,
\* None or Ok(volume in tenths of a billion USD); returns <<vol_b, status>>
RECURSIVE etf_total(_)
etf_total(etfs) ==
    IF etfs = << >> THEN [total_volume |-> 0, success_count |-> 0]
    ELSE LET rest == etf_total(Tail(etfs))
         IN  IF etfs[1] = None THEN rest
             ELSE [total_volume |-> rest.total_volume + etfs[1][2],
                   success_count |-> rest.success_count + 1]

fetch_etf_volume(etfs) ==
    LET t == etf_total(etfs)
    IN  IF t.success_count > 0
        THEN <<frac(t.total_volume, 10), "daily volume">>
        ELSE <<frac(0, 1), "click for details">>

calc_etf_flow(etfs) ==
    LET vol_b == fetch_etf_volume(etfs)[1]
        status_text == IF gt(vol_b, frac(0, 1)) THEN "daily volume" ELSE "daily volume -"
        score == IF gt(vol_b, frac(2, 1)) THEN 10
                 ELSE IF gt(vol_b, frac(1, 1)) THEN 5
                 ELSE 0
    IN  IndicatorResult("ETFActivity", vol_b, score, status_text)

\* returns <<total_holdings, status_text>>; holdings in BTC
fetch_company_holdings_data(response) ==
    IF response = None THEN <<frac(0, 1), "API unavailable">>
    ELSE <<frac(response[2], 1), "total holdings">>

calc_company_holdings(response) ==
    LET h == fetch_company_holdings_data(response)
        score == IF gt(h[1], frac(300000, 1)) THEN 10 ELSE 5
    IN  IndicatorResult("CompanyHoldings", h[1], score, h[2])

calc_exchange_reserve(response) ==
    LET h == fetch_company_holdings_data(response)
    IN  IF gt(h[1], frac(0, 1))
        THEN IndicatorResult("InstitutionalHoldings(proxy)", h[1], 5, h[2])
        ELSE IndicatorResult("InstitutionalHoldings(proxy)", NaN, 0, "API unavailable")

\* hashrate in EH/s
calc_hashrate(response) ==
    IF response = None
    THEN IndicatorResult("Hashrate", NaN, 0, "API unavailable")
    ELSE LET hashrate_ehs == response[2]
             r == IF hashrate_ehs > 800 THEN <<10, "all-time high">>
                  ELSE IF hashrate_ehs > 500 THEN <<5, "high">>
                  ELSE <<0, "hashrate">>
         IN  IndicatorResult("Hashrate", frac(hashrate_ehs, 1), r[1], r[2])

\* response: None, or Ok(<<rows, change_pct, current_val_million>>) with rows
\* the number of CDD values received, change_pct the 30-day change of their
\* SMA30 in percent and current_val_million the SMA30 itself; the SMA30 of 30
\* days ago does not exist before 59 rows and the change is then NaN
calc_lth_supply(response) ==
    IF response = None
    THEN IndicatorResult("LTH(CDD)", frac(0, 1), 0, "source connection failed (SSL)")
    ELSE IF response[2][1] < 40
    THEN IndicatorResult("LTH(CDD)", NaN, 0, "insufficient data")
    ELSE LET change_pct == IF response[2][1] < 59 THEN NaN
                           ELSE frac(response[2][2], 1)
             r == IF lt(change_pct, frac(-5, 1)) THEN <<10, "accumulation">>
                  ELSE IF gt(change_pct, frac(20, 1)) THEN <<-10, "distribution">>
                  ELSE IF gt(change_pct, frac(5, 1)) THEN <<-5, "slight distribution">>
                  ELSE <<5, "holding">>
         IN  IndicatorResult("LTH(CDD)", frac(response[2][3], 1), r[1], r[2])

\* response: None or Ok(best_strike)
calc_max_pain(response) ==
    IF response = None
    THEN IndicatorResult("MaxPain", NaN, 0, "API unavailable")
    ELSE IndicatorResult("MaxPain(expiry)", frac(response[2], 1), 0, "max pain price")

(***************************************************************************)
(* SpecAgg: calculate_total_score on arbitrary dictionaries.               *)
(***************************************************************************)
\* bound: entries of a dictionary handed to calculate_total_score
MaxIndicators == 3

\* keys tried: weights 10, 8, 8, 0 and a key that is not in the table
AggKeys == {"Mayer Multiple", "Pi Cycle Top", "Ahr999", "ExchangeReserve", "RSI"}

AggScores == {-10, -5, 0, 6, 10}

AggValues == {NaN, frac(0, 1)}

InitAgg ==
    /\ NoServer
    /\ pc = "collect"
    /\ df = << >>
    /\ src = None
    /\ indicators = EmptyDict
    /\ total_score = None
    /\ recommendation = "none"
    /\ prev = None
    /\ step = 0

\* the caller builds the dictionary
AddIndicator ==
    /\ pc = "collect"
    /\ Cardinality(DOMAIN indicators) < MaxIndicators
    /\ \E k \in AggKeys \ DOMAIN indicators, v \in AggValues, s \in AggScores :
          indicators' = Put(indicators, k, IndicatorResult(k, v, s, "status"))
    /\ UNCHANGED <<pc, df, src, total_score, recommendation, prev, step>>
    /\ UNCHANGED webvars

Aggregate ==
    /\ pc = "collect"
    /\ LET r == calculate_total_score(indicators)
       IN  /\ total_score' = r.score
           /\ recommendation' = r.recommendation
    /\ pc' = "scored"
    /\ UNCHANGED <<df, src, indicators, prev, step>>
    /\ UNCHANGED webvars

\* the same dictionary plus one unavailable indicator, aggregated again
AggregateWithUnavailable ==
    /\ pc = "scored"
    /\ \E k \in AggKeys \ DOMAIN indicators, s \in AggScores :
          /\ indicators' = Put(indicators, k, IndicatorResult(k, NaN, s, "API unavailable"))
          /\ LET r == calculate_total_score(indicators')
             IN  /\ total_score' = r.score
                 /\ recommendation' = r.recommendation
    /\ prev' = [score |-> total_score, recommendation |-> recommendation]
    /\ pc' = "rescored"
    /\ UNCHANGED <<df, src, step>>
    /\ UNCHANGED webvars

NextAgg == AddIndicator \/ Aggregate \/ AggregateWithUnavailable

SpecAgg == InitAgg /\ [][NextAgg]_vars

(***************************************************************************)
(* Claims on the aggregator                                                *)
(***************************************************************************)
RECURSIVE SetSum(_, _)
SetSum(S, f) ==
    IF S = {} THEN 0
    ELSE LET x == CHOOSE y \in S : TRUE IN f[x] + SetSum(S \ {x}, f)

\* the indicators the aggregate is taken over
Included == {n \in DOMAIN indicators :
                ~isnan(indicators[n].value) /\ n \in DOMAIN WEIGHTS}

WeightOfIncluded == SetSum(Included, [n \in Included |-> WEIGHTS[n]])

WeightedScoreOfIncluded ==
    SetSum(Included, [n \in Included |-> WEIGHTS[n] * indicators[n].score])

Scored == pc \in {"scored", "rescored"}

\* C1: total_score is sum(weight*score)/sum(weight) over exactly the
\* indicators whose value is not NaN and whose key is in the weight table,
\* and 0 when that subset is empty.
C1_WeightedAverage ==
    Scored =>
        /\ Included = {} => total_score.num = 0
        /\ WeightOfIncluded > 0 =>
              total_score.num * WeightOfIncluded
                  = WeightedScoreOfIncluded * total_score.den

\* a dictionary with an available, an unavailable and an unweighted entry
C1_Witness ==
    /\ pc = "scored"
    /\ Cardinality(DOMAIN indicators) = 3
    /\ Cardinality(Included) = 1
    /\ "RSI" \in DOMAIN indicators
    /\ ~isnan(indicators["RSI"].value)
    /\ WeightOfIncluded > 0
    /\ total_score.num # 0

\* C2: one more indicator whose value is NaN changes neither total_score nor
\* the recommendation.
C2_UnavailableIsExcluded ==
    pc = "rescored" =>
        /\ total_score.num * prev.score.den = prev.score.num * total_score.den
        /\ recommendation = prev.recommendation

\* A (score 0.6) and B (value NaN, a weighted key, score 1): exactly 0.6
C2_Witness ==
    /\ pc = "rescored"
    /\ DOMAIN indicators = {"Mayer Multiple", "Pi Cycle Top"}
    /\ indicators["Mayer Multiple"].score = 6
    /\ ~isnan(indicators["Mayer Multiple"].value)
    /\ isnan(indicators["Pi Cycle Top"].value)
    /\ indicators["Pi Cycle Top"].score = 10
    /\ total_score.num = 6 * total_score.den

Band(lo, hi) == AtLeast(total_score, lo) /\ ~AtLeast(total_score, hi)

\* C3: the label is fixed by total_score through the cutoffs 0.8, 0.4, 0.1,
\* -0.1, -0.4, -0.8, each band including its lower cutoff.
C3_Cutoffs ==
    Scored =>
        /\ recommendation = "Strong Buy" <=> AtLeast(total_score, 8)
        /\ recommendation = "Buy" <=> Band(4, 8)
        /\ recommendation = "Accumulate" <=> Band(1, 4)
        /\ recommendation = "Hold" <=> Band(-1, 1)
        /\ recommendation = "Reduce" <=> Band(-4, -1)
        /\ recommendation = "Sell" <=> Band(-8, -4)
        /\ recommendation = "Strong Sell" <=> ~AtLeast(total_score, -8)

\* a total of exactly 0.8 (scores 1 and 0.6 under equal weights)
C3_Witness ==
    /\ pc = "scored"
    /\ total_score.num = 8 * total_score.den
    /\ recommendation = "Strong Buy"

(***************************************************************************)
(* SpecPi: calc_pi_cycle on two-level price histories.                     *)
(***************************************************************************)
\* rows of the older and of the newer level, and the prices of the levels
PiOlderRows == {90, 200, 239, 300}

PiNewerRows == {60, 111, 150, 200}

PiPrices == {1, 5, 7, 8, 10}

PiSeries ==
    {<<[n |-> a, p |-> p1], [n |-> b, p |-> p2]>> :
        a \in PiOlderRows, b \in PiNewerRows, p1 \in PiPrices, p2 \in PiPrices}

InitPi ==
    /\ NoServer
    /\ pc = "pi_input"
    /\ df \in {s \in PiSeries : s[1].p # s[2].p}
    /\ src = None
    /\ indicators = EmptyDict
    /\ total_score = None
    /\ recommendation = "none"
    /\ prev = None
    /\ step = 0

CalcPiCycle ==
    /\ pc = "pi_input"
    /\ indicators' = Put(indicators, "Pi Cycle Top", calc_pi_cycle(df))
    /\ pc' = "pi_done"
    /\ UNCHANGED <<df, src, total_score, recommendation, prev, step>>
    /\ UNCHANGED webvars

NextPi == CalcPiCycle

SpecPi == InitPi /\ [][NextPi]_vars

\* the sums of the last 111 and of the last 350 prices
Sum111 == sum(tail(df, 111))

Sum350 == sum(tail(df, 350))

\* short >= long2, i.e. Sum111 / 111 >= 2 * Sum350 / 350
Crossed == Sum111 * 350 >= 2 * Sum350 * 111

\* gap_pct <= 20, i.e. 4 * long2 <= 5 * short
GapWithin20 == 8 * Sum350 * 111 <= 5 * Sum111 * 350

\* C10: calc_pi_cycle scores -1 whenever short >= long2, equality included,
\* otherwise 0 when gap_pct <= 20, otherwise +1 (also when an average does
\* not exist yet and every comparison is false).
C10_PiCycleScore ==
    pc = "pi_done" =>
        LET score == indicators["Pi Cycle Top"].score
        IN  IF len(df) < 350 THEN score = 10
            ELSE IF Crossed THEN score = -10
            ELSE IF GapWithin20 THEN score = 0
            ELSE score = 10

\* short == long2 exactly: 200 rows at 1 and then 150 rows at 8 give a
\* 111-row average of 8 and a 350-row average of 4
C10_Witness ==
    /\ pc = "pi_done"
    /\ len(df) >= 350
    /\ Sum111 * 350 = 2 * Sum350 * 111
    /\ indicators["Pi Cycle Top"].score = -10

(***************************************************************************)
(* SpecVote: the two multi-timeframe indicators, calc_rsi on price         *)
(* histories and calc_macd on what OKX returned and what the formula       *)
(* yields on each timeframe.                                               *)
(***************************************************************************)
VoteHeads ==
    { << >>,
      <<[n |-> 30, p |-> 10]>>,
      <<[n |-> 80, p |-> 10]>>,
      <<[n |-> 300, p |-> 90], [n |-> 150, p |-> 40]>>,
      <<[n |-> 300, p |-> 10], [n |-> 150, p |-> 40]>>,
      <<[n |-> 1100, p |-> 100], [n |-> 300, p |-> 50], [n |-> 57, p |-> 20]>>,
      <<[n |-> 1100, p |-> 10], [n |-> 300, p |-> 20], [n |-> 57, p |-> 50]>> }

VoteLevels == {5, 40, 200}

\* the last days: flat, up, down, down then up, up then down
VoteTicks(lvl) ==
    { << >>,
      <<[n |-> 3, p |-> lvl + 4]>>,
      <<[n |-> 3, p |-> lvl - 4]>>,
      <<[n |-> 1, p |-> lvl - 1], [n |-> 2, p |-> lvl + 2]>>,
      <<[n |-> 1, p |-> lvl + 1], [n |-> 2, p |-> lvl - 2]>> }

VoteSeries ==
    {<<[n |-> 10, p |-> 10]>>} \cup
    UNION {{head \o <<[n |-> 20, p |-> lvl]>> \o tick : tick \in VoteTicks(lvl)} :
              head \in VoteHeads, lvl \in VoteLevels}

MacdTimeframes == {"4H", "12H", "1D", "1W", "1M"}

MacdSeries ==
    { <<[n |-> 20, p |-> 10]>>,
      <<[n |-> 40, p |-> 10]>>,
      <<[n |-> 250, p |-> 10]>>,
      <<[n |-> 1100, p |-> 10]>> }

OkxKlines == {None, Kline(20), Kline(100)}

MacdFormulas ==
    {[tf \in MacdTimeframes |-> IF tf \in B THEN bull ELSE bear] :
        B \in SUBSET MacdTimeframes,
        bull \in {GoldenCross, BullStronger, BullWeaker},
        bear \in {DeathCross, BearStronger, BearWeaker}}

NoMacdInputs ==
    [okx4h |-> None, okx12h |-> None, formula |-> [tf \in MacdTimeframes |-> BearWeaker]]

InitVote ==
    /\ NoServer
    /\ pc = "vote_input"
    /\ \/ df \in VoteSeries /\ src = NoMacdInputs
       \/ /\ df \in MacdSeries
          /\ src \in [okx4h : OkxKlines, okx12h : OkxKlines, formula : MacdFormulas]
    /\ indicators = EmptyDict
    /\ total_score = None
    /\ recommendation = "none"
    /\ prev = None
    /\ step = 0

CalcRSI ==
    /\ pc = "vote_input"
    /\ indicators' = Put(indicators, "RSI(14)", calc_rsi(df, 14))
    /\ pc' = "rsi_done"
    /\ UNCHANGED <<df, src, total_score, recommendation, prev, step>>
    /\ UNCHANGED webvars

CalcMACD ==
    /\ pc = "vote_input"
    /\ indicators' = Put(indicators, "MACD",
                         calc_macd(df, src.okx4h, src.okx12h, src.formula))
    /\ pc' = "macd_done"
    /\ UNCHANGED <<df, src, total_score, recommendation, prev, step>>
    /\ UNCHANGED webvars

NextVote == CalcRSI \/ CalcMACD

SpecVote == InitVote /\ [][NextVote]_vars

(***************************************************************************)
(* SpecRun: run_dashboard.  src holds what every external source answers   *)
(* during the run, None for a failed request; prices are in thousands of   *)
(* USD.                                                                    *)
(***************************************************************************)
\* histories of 10, 25, 100, 250, 400, 800 and 1500 daily rows
RunSeries ==
    { <<[n |-> 7, p |-> 20], [n |-> 3, p |-> 22]>>,
      <<[n |-> 20, p |-> 20], [n |-> 5, p |-> 18]>>,
      <<[n |-> 90, p |-> 20], [n |-> 10, p |-> 30]>>,
      <<[n |-> 200, p |-> 40], [n |-> 50, p |-> 30]>>,
      <<[n |-> 300, p |-> 20], [n |-> 100, p |-> 60]>>,
      <<[n |-> 700, p |-> 30], [n |-> 100, p |-> 25]>>,
      <<[n |-> 1100, p |-> 10], [n |-> 300, p |-> 40], [n |-> 100, p |-> 95]>> }

\* generate_sample_data: daily rows since 2020-01-01 with a random walk
\* rescaled to end at 95000 USD; one such history
generate_sample_data ==
    <<[n |-> 1500, p |-> 30], [n |-> 700, p |-> 60], [n |-> 300, p |-> 95]>>

\* fetch_btc_data: Yahoo Finance, then CoinGecko, then Binance klines, then
\* the sample data; a source that answers without usable rows counts as None
fetch_btc_data(yahoo, coingecko, binance) ==
    IF yahoo # None THEN yahoo[2]
    ELSE IF coingecko # None THEN coingecko[2]
    ELSE IF binance # None THEN binance[2]
    ELSE generate_sample_data

\* fetch_realtime_btc_price: the first source that answers
fetch_realtime_btc_price(coingecko, binance, coinbase) ==
    IF coingecko # None THEN coingecko
    ELSE IF binance # None THEN binance
    ELSE coinbase

\* the external sources read after the history
Feeds ==
    {"price.coingecko", "price.binance", "price.coinbase", "okx.kline",
     "alternative.fng", "binance.funding", "coingecko.derivatives",
     "bybit.tickers", "okx.longshort", "binance.longshort", "deribit.options",
     "coingecko.global", "yahoo.etf", "coingecko.treasury",
     "blockchain.hashrate", "blockchain.cdd"}

\* the sources each scalar indicator reads
SourcesOf(key) ==
    CASE key = "FearGreed" -> {"alternative.fng"}
      [] key = "FundingRate" -> {"binance.funding", "coingecko.derivatives",
                                 "bybit.tickers"}
      [] key = "LongShort" -> {"okx.longshort", "binance.longshort"}
      [] key = "MaxPain" -> {"deribit.options"}
      [] key = "BTCDominance" -> {"coingecko.global"}
      [] key = "ETFFlow" -> {"yahoo.etf"}
      [] key = "CompanyHoldings" -> {"coingecko.treasury"}
      [] key = "ExchangeReserve" -> {"coingecko.treasury"}
      [] key = "Hashrate" -> {"blockchain.hashrate"}
      [] key = "LTH(CDD)" -> {"blockchain.cdd"}

ScalarKeys ==
    {"FearGreed", "FundingRate", "LongShort", "MaxPain", "BTCDominance",
     "ETFFlow", "CompanyHoldings", "ExchangeReserve", "Hashrate", "LTH(CDD)"}

\* the outages tried: none, everything, all sources of one indicator, one
\* source alone
DownSets ==
    {{}, Feeds} \cup {SourcesOf(k) : k \in ScalarKeys} \cup {{f} : f \in Feeds}

Levels == {"low", "mid", "high"}

\* what the sources that are up answer, at one of three market levels
Pick(level, low, mid, high) ==
    IF level = "low" THEN low ELSE IF level = "mid" THEN mid ELSE high

Answer(down, feed, v) == IF feed \in down THEN None ELSE Ok(v)

Environment(yahoo, coingecko, binance, down, level) ==
    [ yahoo |-> yahoo, coingecko |-> coingecko, binance |-> binance,
      price_coingecko |-> Answer(down, "price.coingecko", Pick(level, 15, 45, 99)),
      price_binance |-> Answer(down, "price.binance", Pick(level, 16, 46, 98)),
      price_coinbase |-> Answer(down, "price.coinbase", Pick(level, 17, 47, 97)),
      days_since_halving |-> Pick(level, 200, 500, 900),
      geo |-> Pick(level, 1, 2, 3),
      exp_growth_value |-> frac(Pick(level, 150, 60, 20), 1),
      fair_value |-> frac(Pick(level, 300, 60, 10), 1),
      okx4h |-> IF "okx.kline" \in down THEN None
                ELSE Kline(Pick(level, 20, 100, 100)),
      okx12h |-> IF "okx.kline" \in down THEN None
                 ELSE Kline(Pick(level, 100, 30, 100)),
      formula |-> [tf \in MacdTimeframes |->
                      Pick(level, IF tf = "1D" THEN GoldenCross ELSE BearWeaker,
                           IF tf \in {"4H", "1W"} THEN BullStronger ELSE DeathCross,
                           IF tf = "1M" THEN BearStronger ELSE BullWeaker)],
      fear_greed |-> Answer(down, "alternative.fng", Pick(level, 20, 50, 80)),
      funding_binance |-> Answer(down, "binance.funding", Pick(level, -12, 1, 11)),
      funding_coingecko |-> Answer(down, "coingecko.derivatives", Pick(level, -5, 0, 5)),
      funding_bybit |-> Answer(down, "bybit.tickers", Pick(level, -3, 2, 10)),
      long_short_okx |-> Answer(down, "okx.longshort", Pick(level, 40, 100, 210)),
      long_short_binance |-> Answer(down, "binance.longshort", Pick(level, 60, 120, 150)),
      max_pain |-> Answer(down, "deribit.options", Pick(level, 20, 50, 100)),
      btc_dominance |-> Answer(down, "coingecko.global", Pick(level, 40, 50, 60)),
      etfs |-> IF "yahoo.etf" \in down THEN <<None, None, None>>
               ELSE Pick(level, <<Ok(4), None, Ok(3)>>, <<Ok(8), Ok(7), None>>,
                         <<Ok(15), Ok(9), Ok(6)>>),
      company |-> Answer(down, "coingecko.treasury", Pick(level, 0, 250000, 900000)),
      hashrate |-> Answer(down, "blockchain.hashrate", Pick(level, 400, 600, 900)),
      hashrate_again |-> Answer(down, "blockchain.hashrate", Pick(level, 401, 601, 901)),
      cdd |-> Answer(down, "blockchain.cdd",
                     Pick(level, <<30, 0, 9>>, <<50, 0, 12>>, <<180, 25, 15>>)) ]

\* which history source answers: Yahoo with each history, or the fallbacks
Histories ==
    {<<Ok(s), None, None>> : s \in RunSeries} \cup
    { <<None, Ok(<<[n |-> 300, p |-> 50], [n |-> 65, p |-> 70]>>), None>>,
      <<None, None, Ok(<<[n |-> 900, p |-> 30], [n |-> 100, p |-> 80]>>)>>,
      <<None, None, None>> }

Environments ==
    {Environment(h[1], h[2], h[3], down, level) :
        h \in Histories, down \in DownSets, level \in Levels}

\* the 23 assignments of run_dashboard, in order
RunOrder ==
    << "Mayer Multiple", "Pi Cycle Top", "HalvingCycle", "Ahr999", "PowerLaw",
       "2-Year MA Mult", "200-Week Heatmap", "Golden Ratio", "RSI(14)", "MACD",
       "Bollinger", "FearGreed", "FundingRate", "LongShort", "MaxPain",
       "BTCDominance", "ETFFlow", "CompanyHoldings", "ExchangeReserve",
       "Hashrate", "Hashrate", "BalancedPrice", "LTH(CDD)" >>

\* the right-hand side of the i-th assignment
Compute(i, s, e) ==
    LET key == RunOrder[i]
    IN  CASE key = "Mayer Multiple" -> calc_mayer_multiple(s)
          [] key = "Pi Cycle Top" -> calc_pi_cycle(s)
          [] key = "HalvingCycle" -> calc_halving_cycle(e.days_since_halving)
          [] key = "Ahr999" -> calc_ahr999(s, e.geo, e.exp_growth_value)
          [] key = "PowerLaw" -> calc_power_law(s, e.fair_value)
          [] key = "2-Year MA Mult" -> calc_two_year_ma_multiplier(s)
          [] key = "200-Week Heatmap" -> calc_200w_ma_heatmap(s)
          [] key = "Golden Ratio" -> calc_golden_ratio_multiplier(s)
          [] key = "RSI(14)" -> calc_rsi(s, 14)
          [] key = "MACD" -> calc_macd(s, e.okx4h, e.okx12h, e.formula)
          [] key = "Bollinger" -> calc_bollinger_bands(s)
          [] key = "FearGreed" -> calc_fear_greed_index(e.fear_greed)
          [] key = "FundingRate" ->
                calc_funding_rate(e.funding_binance, e.funding_coingecko, e.funding_bybit)
          [] key = "LongShort" ->
                calc_long_short_ratio(e.long_short_okx, e.long_short_binance)
          [] key = "MaxPain" -> calc_max_pain(e.max_pain)
          [] key = "BTCDominance" -> calc_btc_dominance(e.btc_dominance)
          [] key = "ETFFlow" -> calc_etf_flow(e.etfs)
          [] key = "CompanyHoldings" -> calc_company_holdings(e.company)
          [] key = "ExchangeReserve" -> calc_exchange_reserve(e.company)
          [] key = "Hashrate" ->
                calc_hashrate(IF i = 20 THEN e.hashrate ELSE e.hashrate_again)
          [] key = "BalancedPrice" -> calc_balanced_price(s)
          [] key = "LTH(CDD)" -> calc_lth_supply(e.cdd)

InitRun ==
    /\ NoServer
    /\ pc = "run_start"
    /\ df = << >>
    /\ src \in Environments
    /\ indicators = EmptyDict
    /\ total_score = None
    /\ recommendation = "none"
    /\ prev = None
    /\ step = 0

\* df = fetch_btc_data()
FetchBtcData ==
    /\ pc = "run_start"
    /\ df' = fetch_btc_data(src.yahoo, src.coingecko, src.binance)
    /\ pc' = "fetched"
    /\ UNCHANGED <<src, indicators, total_score, recommendation, prev, step>>
    /\ UNCHANGED webvars

\* realtime_price = fetch_realtime_btc_price() and the overwrite of the last
\* row; prev keeps current_price
FetchRealtimePrice ==
    /\ pc = "fetched"
    /\ LET realtime_price == fetch_realtime_btc_price(src.price_coingecko,
                                 src.price_binance, src.price_coinbase)
       IN  IF realtime_price # None
           THEN /\ df' = set_last(df, realtime_price[2])
                /\ prev' = Ok(realtime_price[2])
           ELSE /\ df' = df
                /\ prev' = Ok(last_price(df))
    /\ pc' = "computing"
    /\ step' = 1
    /\ UNCHANGED <<src, indicators, total_score, recommendation>>
    /\ UNCHANGED webvars

\* indicators[key] = calc_...(...)
ComputeIndicator ==
    /\ pc = "computing"
    /\ step <= Len(RunOrder)
    /\ indicators' = Put(indicators, RunOrder[step], Compute(step, df, src))
    /\ step' = step + 1
    /\ UNCHANGED <<pc, df, src, total_score, recommendation, prev>>
    /\ UNCHANGED webvars

\* total_score, recommendation = calculate_total_score(indicators)
TotalScore ==
    /\ pc = "computing"
    /\ step > Len(RunOrder)
    /\ LET r == calculate_total_score(indicators)
       IN  /\ total_score' = r.score
           /\ recommendation' = r.recommendation
    /\ pc' = "done"
    /\ UNCHANGED <<df, src, indicators, prev, step>>
    /\ UNCHANGED webvars

NextRun == FetchBtcData \/ FetchRealtimePrice \/ ComputeIndicator \/ TotalScore

SpecRun == InitRun /\ [][NextRun]_vars

(***************************************************************************)
(* Claims on the multi-timeframe vote                                      *)
(***************************************************************************)
RsiVoted == pc = "rsi_done" /\ len(df) >= 15

MacdVoted == pc = "macd_done" /\ len(df) >= 35

RsiFrames == indicators["RSI(14)"].detail.timeframes

MacdFrames == indicators["MACD"].detail.timeframes

Overbought == count_trend(RsiFrames, "overbought")

Oversold == count_trend(RsiFrames, "oversold")

Neutral == count_trend(RsiFrames, "neutral")

Bullish == count_trend(MacdFrames, "bull")

Bearish == count_trend(MacdFrames, "bear")

\* the score a majority of `majority` out of `total` votes for the side
\* `sign` must carry
Scaled(majority, total, score, sign) ==
    /\ 10 * majority >= 8 * total => score = sign * 10
    /\ 10 * majority < 8 * total /\ 2 * majority >= total => score = sign * 5
    /\ 2 * majority < total => sign * score > 0 /\ sign * score < 5

\* the label that goes with the share of the majority
Labelled(majority, total, status, extreme, moderate) ==
    /\ 10 * majority >= 8 * total => status = extreme
    /\ 10 * majority < 8 * total /\ 2 * majority >= total => status = moderate
    /\ 2 * majority < total => status = "divergence"

\* C7: the bucket whose count is strictly greater than each other bucket's is
\* the verdict, and its share of the evaluated timeframes scales the score:
\* >= 0.8 extreme and +/-1, >= 0.5 moderate and +/-0.5, lower a divergence
\* label with a small score signed by the side with more votes.
C7_VoteScaling ==
    /\ RsiVoted =>
          LET r == indicators["RSI(14)"]
              total == Len(RsiFrames)
          IN  /\ Overbought > Oversold /\ Overbought > Neutral =>
                    /\ Scaled(Overbought, total, r.score, -1)
                    /\ Labelled(Overbought, total, r.status,
                                "overbought on most timeframes", "leaning overbought")
                    /\ r.detail.count = Overbought
              /\ Oversold > Overbought /\ Oversold > Neutral =>
                    /\ Scaled(Oversold, total, r.score, 1)
                    /\ Labelled(Oversold, total, r.status,
                                "oversold on most timeframes", "leaning oversold")
                    /\ r.detail.count = Oversold
              /\ Neutral > Overbought /\ Neutral > Oversold =>
                    /\ r.score = 0
                    /\ r.status = "neutral on most timeframes"
                    /\ r.detail.count = Neutral
    /\ MacdVoted =>
          LET r == indicators["MACD"]
              total == Len(MacdFrames)
          IN  /\ Bullish > Bearish =>
                    /\ Scaled(Bullish, total, r.score, 1)
                    /\ Labelled(Bullish, total, r.status, "strong bull", "leaning bull")
              /\ Bearish > Bullish =>
                    /\ Scaled(Bearish, total, r.score, -1)
                    /\ Labelled(Bearish, total, r.status, "strong bear", "leaning bear")

\* four of five timeframes overbought: a share of exactly 0.8
C7_Witness ==
    /\ RsiVoted
    /\ Len(RsiFrames) = 5
    /\ Overbought = 4
    /\ Oversold = 1
    /\ indicators["RSI(14)"].score = -10

\* the sign of a float value
Sign(x) == IF x[2] > 0 THEN 1 ELSE IF x[2] < 0 THEN -1 ELSE 0

\* what a tie must give: a divergence status and a near-zero score with the
\* sign of the cumulative strength
TieBroken(r) ==
    /\ r.status = "divergence"
    /\ r.score > -5
    /\ r.score < 5
    /\ Sign(r.value) # 0 => Sign(frac(r.score, 10)) = Sign(r.value)

\* C8: when the two leading buckets have equal counts the result is a
\* divergence status with a near-zero score whose sign is that of the side
\* with the larger cumulative strength.
C8_TieBreak ==
    /\ RsiVoted /\ Overbought = Oversold /\ Overbought > 0 /\ Overbought >= Neutral
          => TieBroken(indicators["RSI(14)"])
    /\ MacdVoted /\ Bullish = Bearish /\ Bullish > 0
          => TieBroken(indicators["MACD"])

\* the timeframes of calc_rsi, with the series each one is computed on and
\* the condition under which the code evaluates it at all
RsiTimeframes == {"1D", "4H", "12H", "1W", "1M", "1Y"}

RsiFrameSeries(tf) ==
    IF tf = "1D" THEN df
    ELSE IF tf = "4H" THEN tail(df, (len(df) \div 6) * 6)
    ELSE IF tf = "12H" THEN tail(df, len(df) \div 2)
    ELSE IF tf = "1W" THEN resample_last(df, 7)
    ELSE IF tf = "1M" THEN resample_last(df, 30)
    ELSE resample_last(df, 365)

RsiFramePeriod(tf) ==
    IF tf = "1Y" /\ len(RsiFrameSeries(tf)) - 1 < 14
    THEN len(RsiFrameSeries(tf)) - 1 ELSE 14

RsiFrameHasValue(tf) ==
    /\ tf \in {"4H", "12H"} => len(df) >= 70
    /\ tf = "1Y" => len(RsiFrameSeries(tf)) >= 5
    /\ len(RsiFrameSeries(tf)) >= RsiFramePeriod(tf) + 1
    /\ ~isnan(rsi_last(RsiFrameSeries(tf), RsiFramePeriod(tf)))

MacdFrameRows(tf) ==
    IF tf = "4H" THEN (IF src.okx4h = None THEN 0 ELSE src.okx4h[2])
    ELSE IF tf = "12H" THEN (IF src.okx12h = None THEN 0 ELSE src.okx12h[2])
    ELSE IF tf = "1D" THEN len(df)
    ELSE IF tf = "1W" THEN len(resample_last(df, 7))
    ELSE len(resample_last(df, 30))

Listed(frames) == {frames[i].tf : i \in 1..Len(frames)}

\* C9: a timeframe too short for the base formula, or on which the formula
\* yields no value, is in no bucket and not in the total of evaluated
\* timeframes.
C9_ShortTimeframeExcluded ==
    /\ RsiVoted =>
          /\ Listed(RsiFrames) = {tf \in RsiTimeframes : RsiFrameHasValue(tf)}
          /\ Len(RsiFrames) = Cardinality(Listed(RsiFrames))
          /\ indicators["RSI(14)"].detail.total = Len(RsiFrames)
          /\ Overbought + Oversold + Neutral = Len(RsiFrames)
    /\ MacdVoted =>
          /\ Listed(MacdFrames) = {tf \in MacdTimeframes : MacdFrameRows(tf) >= 35}
          /\ Len(MacdFrames) = Cardinality(Listed(MacdFrames))
          /\ indicators["MACD"].detail.total = Len(MacdFrames)
          /\ Bullish + Bearish = Len(MacdFrames)

\* flat last days (no daily, 4H or 12H value) under weekly and monthly
\* series that do vote
C9_Witness ==
    /\ RsiVoted
    /\ len(df) >= 70
    /\ ~RsiFrameHasValue("1D")
    /\ "1D" \notin Listed(RsiFrames)
    /\ Len(RsiFrames) = 2
    /\ indicators["RSI(14)"].detail.total = 2

(***************************************************************************)
(* Claims on a dashboard run                                               *)
(***************************************************************************)
WindowedKeys ==
    {"Mayer Multiple", "Pi Cycle Top", "Ahr999", "2-Year MA Mult",
     "200-Week Heatmap", "Golden Ratio", "BalancedPrice", "RSI(14)", "MACD",
     "Bollinger"}

\* the rows each window-based indicator needs
RequiredWindow(key) ==
    CASE key \in {"Mayer Multiple", "Ahr999"} -> 200
      [] key \in {"Pi Cycle Top", "Golden Ratio", "BalancedPrice"} -> 350
      [] key = "2-Year MA Mult" -> 730
      [] key = "200-Week Heatmap" -> 1400
      [] key = "RSI(14)" -> 15
      [] key = "MACD" -> 35
      [] key = "Bollinger" -> 20

Computing == pc \in {"computing", "done"}

\* value NaN, score 0, and out of the aggregate once it is taken
Unavailable(key) ==
    /\ isnan(indicators[key].value)
    /\ indicators[key].score = 0
    /\ pc = "done" => key \notin Included

ShortFor(key) == key \in WindowedKeys /\ len(df) < RequiredWindow(key)

\* C4: a window-based indicator computed on a series shorter than its window
\* has value NaN, score 0 and the insufficient-data status, and is excluded
\* from the aggregate.
C4_ShortSeriesUnavailable ==
    Computing =>
        \A key \in DOMAIN indicators :
            ShortFor(key) =>
                /\ Unavailable(key)
                /\ indicators[key].status = "insufficient data"

\* what the sources of a scalar indicator answered during the run
AnswersFor(key) ==
    CASE key = "FearGreed" -> {src.fear_greed}
      [] key = "FundingRate" -> {src.funding_binance, src.funding_coingecko,
                                 src.funding_bybit}
      [] key = "LongShort" -> {src.long_short_okx, src.long_short_binance}
      [] key = "MaxPain" -> {src.max_pain}
      [] key = "BTCDominance" -> {src.btc_dominance}
      [] key = "ETFFlow" -> {src.etfs[i] : i \in 1..Len(src.etfs)}
      [] key \in {"CompanyHoldings", "ExchangeReserve"} -> {src.company}
      [] key = "Hashrate" -> {src.hashrate, src.hashrate_again}
      [] key = "LTH(CDD)" -> {src.cdd}

SourcesDown(key) == key \in ScalarKeys /\ AnswersFor(key) = {None}

FailureStatuses ==
    {"API unavailable", "source connection failed (SSL)", "daily volume -"}

\* C5: a scalar-snapshot indicator all of whose sources are unavailable has
\* value NaN, score 0 and a status describing the failure, so that the
\* aggregate leaves it out.
C5_SourcesDownUnavailable ==
    Computing =>
        \A key \in DOMAIN indicators :
            SourcesDown(key) =>
                /\ Unavailable(key)
                /\ indicators[key].status \in FailureStatuses

RegisteredKeys == {RunOrder[i] : i \in 1..Len(RunOrder)}

\* C6: a run ends with an entry for every registered indicator, and every
\* indicator that failed (sources down, too little history) carries value
\* NaN and a neutral score.
C6_RunCompletes ==
    pc = "done" =>
        /\ DOMAIN indicators = RegisteredKeys
        /\ \A key \in RegisteredKeys :
              ShortFor(key) \/ SourcesDown(key) =>
                  /\ isnan(indicators[key].value)
                  /\ indicators[key].score = 0

(***************************************************************************)
(* SpecCalc: the band-scoring indicators on two-level price histories.     *)
(* src holds the clock-derived inputs the indicator was computed with.     *)
(***************************************************************************)
CalcOlderRows == {19, 100, 150, 300}

CalcNewerRows == {1, 50, 100}

CalcPrices == {1, 2, 3, 5, 7, 9, 11}

CalcSeries ==
    {<<[n |-> a, p |-> p1], [n |-> b, p |-> p2]>> :
        a \in CalcOlderRows, b \in CalcNewerRows,
        p1 \in CalcPrices, p2 \in CalcPrices}

\* how far the geometric mean lies from the smallest price, in quarters
CalcGeo == {1, 3}

\* values of 10 ** (AHR999_B * log10(days) + AHR999_A)
CalcGrowthValues == {frac(1, 1), frac(15, 2), frac(20, 1)}

\* values of 10 ** (POWER_LAW_INTERCEPT + POWER_LAW_SLOPE * log10(days))
CalcFairValues ==
    {frac(1, 1), frac(5, 1), frac(9, 1), frac(100, 1),
     mul(frac(9, 1), Sqrt10), div(frac(9, 1), Sqrt10)}

InitCalc ==
    /\ NoServer
    /\ pc = "calc_input"
    /\ df \in CalcSeries
    /\ src = None
    /\ indicators = EmptyDict
    /\ total_score = None
    /\ recommendation = "none"
    /\ prev = None
    /\ step = 0

CalcMayerMultiple ==
    /\ pc = "calc_input"
    /\ indicators' = Put(indicators, "Mayer Multiple", calc_mayer_multiple(df))
    /\ pc' = "mayer_done"
    /\ UNCHANGED <<df, src, total_score, recommendation, prev, step>>
    /\ UNCHANGED webvars

CalcAhr999 ==
    /\ pc = "calc_input"
    /\ \E geo \in CalcGeo, exp_growth_value \in CalcGrowthValues :
          /\ src' = [geo |-> geo, exp_growth_value |-> exp_growth_value]
          /\ indicators' = Put(indicators, "Ahr999",
                               calc_ahr999(df, geo, exp_growth_value))
    /\ pc' = "ahr999_done"
    /\ UNCHANGED <<df, total_score, recommendation, prev, step>>
    /\ UNCHANGED webvars

CalcPowerLaw ==
    /\ pc = "calc_input"
    /\ \E fair_value \in CalcFairValues :
          /\ src' = [fair_value |-> fair_value]
          /\ indicators' = Put(indicators, "PowerLaw", calc_power_law(df, fair_value))
    /\ pc' = "power_law_done"
    /\ UNCHANGED <<df, total_score, recommendation, prev, step>>
    /\ UNCHANGED webvars

CalcBalancedPrice ==
    /\ pc = "calc_input"
    /\ indicators' = Put(indicators, "BalancedPrice", calc_balanced_price(df))
    /\ pc' = "balanced_done"
    /\ UNCHANGED <<df, src, total_score, recommendation, prev, step>>
    /\ UNCHANGED webvars

CalcBollingerBands ==
    /\ pc = "calc_input"
    /\ indicators' = Put(indicators, "Bollinger", calc_bollinger_bands(df))
    /\ pc' = "bollinger_done"
    /\ UNCHANGED <<df, src, total_score, recommendation, prev, step>>
    /\ UNCHANGED webvars

NextCalc ==
    \/ CalcMayerMultiple
    \/ CalcAhr999
    \/ CalcPowerLaw
    \/ CalcBalancedPrice
    \/ CalcBollingerBands

SpecCalc == InitCalc /\ [][NextCalc]_vars

\* the sum of the last 200 prices: ratio = 200 * price / Sum200
Sum200 == sum(tail(df, 200))

\* ratio < n / 10
RatioBelow(n) == 2000 * last_price(df) < n * Sum200

\* C11: calc_mayer_multiple scores 1 for ratio < 0.6, 0.5 for ratio in
\* [0.6, 1.1), 0 for ratio in [1.1, 1.8), -0.5 for ratio in [1.8, 2.4) and
\* -1 for ratio >= 2.4, every lower bound included.
C11_MayerBands ==
    (pc = "mayer_done" /\ len(df) >= 200) =>
        LET score == indicators["Mayer Multiple"].score
        IN  IF RatioBelow(6) THEN score = 10
            ELSE IF RatioBelow(11) THEN score = 5
            ELSE IF RatioBelow(18) THEN score = 0
            ELSE IF RatioBelow(24) THEN score = -5
            ELSE score = -10

\* the value and the score calc_ahr999 returned
AhrValue == indicators["Ahr999"].value

AhrScore == indicators["Ahr999"].score

\* the last min(200, len) rows and their geometric mean
AhrWindow == tail(df, IF len(df) < 200 THEN len(df) ELSE 200)

AhrCost == geometric_mean(AhrWindow, src.geo)

\* value < n / 100, for value = a / b with b > 0
AhrBelow(n) == 100 * AhrValue[2] < n * AhrValue[3]

AhrArithmeticCost == frac(sum(AhrWindow), len(AhrWindow))

\* the status labels that mark a result as approximate (none is produced)
ApproximateStatuses == {"approximate"}

\* C13: with fewer than 200 prices calc_ahr999 takes the arithmetic mean as
\* the accumulation cost and its status marks the result as approximate.
C13_ShortSeriesApproximate ==
    (pc = "ahr999_done" /\ len(df) < 200) =>
        /\ AhrValue = mul(div(frac(last_price(df), 1), AhrArithmeticCost),
                          div(frac(last_price(df), 1), src.exp_growth_value))
        /\ indicators["Ahr999"].status \in ApproximateStatuses

\* the corridor calc_power_law was computed with, and what it returned
PlFair == src.fair_value

PlUpper == mul(PlFair, Sqrt10)

PlLower == div(PlFair, Sqrt10)

PlPrice == frac(last_price(df), 1)

PlPosition == indicators["PowerLaw"].value

PlScore == indicators["PowerLaw"].score

\* a + t * (b - a) = x: x lies the fraction t of the way from a to b
Interpolates(x, a, b, t) == x = add(a, mul(t, sub(b, a)))

\* C14: calc_power_law scores -1 above the upper band, +1 below the lower
\* band and 0 inside the corridor; the position is linear in the price on
\* each side of the fair value, -1 at the lower band, 0 at the fair value and
\* +1 at the upper band, so that the score is 0 exactly when the position
\* lies in [-1, +1].
C14_PowerLawCorridor ==
    pc = "power_law_done" =>
        /\ PlScore = (IF gt(PlPrice, PlUpper) THEN -10
                      ELSE IF lt(PlPrice, PlLower) THEN 10 ELSE 0)
        /\ IF lt(PlPrice, PlFair)
           THEN Interpolates(PlPrice, PlLower, PlFair, add(PlPosition, frac(1, 1)))
           ELSE Interpolates(PlPrice, PlFair, PlUpper, PlPosition)
        /\ PlPrice = PlLower => PlPosition = frac(-1, 1)
        /\ PlPrice = PlFair => PlPosition = frac(0, 1)
        /\ PlPrice = PlUpper => PlPosition = frac(1, 1)
        /\ PlScore = 0 <=> (ge(PlPosition, frac(-1, 1)) /\ le(PlPosition, frac(1, 1)))

\* the price sits exactly on the lower band: position -1, score 0
C14_Witness ==
    /\ pc = "power_law_done"
    /\ PlPrice = PlLower
    /\ PlPosition = frac(-1, 1)
    /\ PlScore = 0

\* the last 20 prices are all equal: std = 0 and band_width = 0
ZeroBandWidth ==
    LET w == tail(df, 20) IN 20 * sum_sq(w) = sum(w) * sum(w)

\* C15: an indicator whose formula would divide by zero (here the band width
\* of calc_bollinger_bands) returns value NaN, score 0 and the
\* insufficient-data status.
C15_DegenerateIsUnavailable ==
    (pc = "bollinger_done" /\ len(df) >= 20 /\ ZeroBandWidth) =>
        /\ isnan(indicators["Bollinger"].value)
        /\ indicators["Bollinger"].score = 0
        /\ indicators["Bollinger"].status = "insufficient data"

(***************************************************************************)
(* The history projections (get_*_history).  A history is the dict the     *)
(* function returns; dates has one entry per value and is kept as the      *)
(* length of values; thresholds and lines are chart decoration and are     *)
(* left out.                                                               *)
(***************************************************************************)
History(indicator, values) == [indicator |-> indicator, values |-> values]

\* s[:k] as rows, kept run-length encoded
RECURSIVE head(_, _)
head(s, k) ==
    IF k <= 0 \/ s = << >> THEN << >>
    ELSE IF s[1].n >= k THEN <<[n |-> k, p |-> s[1].p]>>
    ELSE <<s[1]>> \o head(Tail(s), k - s[1].n)

\* long division: the quotient q and the remainder rem of a / d carried on
\* by k decimal digits
RECURSIVE shift(_, _, _, _)
shift(q, rem, d, k) ==
    IF k = 0 THEN <<q, rem>>
    ELSE shift(10 * q + (10 * rem) \div d, (10 * rem) % d, d, k - 1)

RECURSIVE pow10(_)
pow10(k) == IF k = 0 THEN 1 ELSE 10 * pow10(k - 1)

\* round(x, digits): to the nearest multiple of 10 ** -digits, a tie to the
\* even one; NaN stays NaN
round(x, digits) ==
    IF isnan(x) THEN NaN
    ELSE LET a == IF x[2] < 0 THEN -x[2] ELSE x[2]
             qr == shift(a \div x[3], a % x[3], x[3], digits)
             up == \/ 2 * qr[2] > x[3]
                   \/ 2 * qr[2] = x[3] /\ qr[1] % 2 = 1
             q == IF up THEN qr[1] + 1 ELSE qr[1]
         IN  frac(IF x[2] < 0 THEN -q ELSE q, pow10(digits))

\* the number of rows of s.tail(days)
tail_rows(s, days) == IF len(s) < days THEN len(s) ELSE days

\* [round(row['price'], 2) for row in df.tail(days)]
rounded_prices(s, days) ==
    LET k == tail_rows(s, days)
    IN  [j \in 1..k |-> round(frac(price_at(s, len(s) - k + j), 1), 2)]

get_two_year_ma_history(s, days) ==
    History("2-Year MA Mult", rounded_prices(s, days))

get_200w_heatmap_history(s, days) ==
    History("200-Week Heatmap", rounded_prices(s, days))

get_golden_ratio_history(s, days) ==
    History("Golden Ratio", rounded_prices(s, days))

\* gap_pct on the row that closes the first i rows of recent_df
pi_cycle_gap(recent_df, i) ==
    LET upto == head(recent_df, i)
        ma_111 == rolling_mean_last(upto, 111)
        ma_350 == scale(rolling_mean_last(upto, 350), 2, 1)
    IN  scale(div(sub(ma_350, ma_111), ma_350), 100, 1)

\* the rows of recent_df from the 350th on have a gap; the last `days` of
\* them are kept
get_pi_cycle_history(s, days) ==
    LET recent_df == tail(s, tail_rows(s, days + 350))
        m == len(recent_df)
        with_gap == IF m < 350 THEN 0 ELSE m - 349
        k == IF with_gap < days THEN with_gap ELSE days
    IN  History("Pi Cycle Top",
                [j \in 1..k |-> round(pi_cycle_gap(recent_df, m - k + j), 2)])

\* 10 ** (AHR999_A + AHR999_B * log10(days_since)) for the row `back` days
\* before the last one: the curve grows by about a thousandth a day
fair_price_before(exp_growth_value, back) ==
    scale(exp_growth_value, 1000 - back, 1000)

\* the value of the row that closes the first i rows: gmean200 is the
\* geometric mean of the 200 rows up to it, of the rows there are when
\* fewer (the fallback of the NaN case)
ahr999_at(s, i, geo, exp_growth_value) ==
    LET price == frac(price_at(s, i), 1)
        ma200 == geometric_mean(tail(head(s, i), IF i < 200 THEN i ELSE 200), geo)
        fair_price == fair_price_before(exp_growth_value, len(s) - i)
    IN  IF gt(fair_price, frac(0, 1)) /\ gt(ma200, frac(0, 1))
        THEN Ok(round(mul(div(price, ma200), div(price, fair_price)), 3))
        ELSE None

\* the values appended by the loop over the last k rows
ahr999_values(s, k, geo, exp_growth_value) ==
    LET computed == [j \in 1..k |-> ahr999_at(s, len(s) - k + j, geo, exp_growth_value)]
        appended == SelectSeq(computed, LAMBDA v : v # None)
    IN  [j \in 1..Len(appended) |-> appended[j][2]]

\* the last row of the series is today's
get_ahr999_history(s, days, geo, exp_growth_value) ==
    History("Ahr999", ahr999_values(s, tail_rows(s, days), geo, exp_growth_value))

RECURSIVE reversed(_)
reversed(q) == IF q = << >> THEN << >> ELSE Append(reversed(Tail(q)), Head(q))

\* q[-k:]
last_items(q, k) == IF Len(q) <= k THEN q ELSE SubSeq(q, Len(q) - k + 1, Len(q))

\* response: None, or Ok(data) with data the index values, newest first
get_fear_greed_history(response, days) ==
    IF response = None THEN History("FearGreed", << >>)
    ELSE History("FearGreed", [j \in 1..Len(response[2]) |->
                                  frac(reversed(response[2])[j], 1)])

\* the ascending sequence of the elements of a set of integers
RECURSIVE sorted(_)
sorted(S) ==
    IF S = {} THEN << >>
    ELSE LET lo == CHOOSE x \in S : \A y \in S : x <= y
         IN  <<lo>> \o sorted(S \ {lo})

\* response: None, or Ok(data) with data the settlements in the order
\* received, each [day, rate] with the rate in millionths; a day keeps the
\* rate of its last settlement, in percent
get_funding_rate_history(response, days) ==
    IF response = None THEN History("FundingRate", << >>)
    ELSE LET data == response[2]
             daily_data == [d \in {data[i].day : i \in DOMAIN data} |->
                 LET i == CHOOSE i \in DOMAIN data :
                              /\ data[i].day = d
                              /\ \A j \in DOMAIN data : data[j].day = d => j <= i
                 IN  frac(data[i].rate, 10000)]
             sorted_dates == last_items(sorted(DOMAIN daily_data), days)
         IN  History("FundingRate",
                     [j \in DOMAIN sorted_dates |-> round(daily_data[sorted_dates[j]], 4)])

\* okx: None, or Ok(data) with data the daily ratios, newest first;
\* binance: None, or Ok(data), oldest first; ratios in thousandths
get_long_short_history(okx, binance, days) ==
    LET from_okx == IF okx = None \/ okx[2] = << >> THEN << >>
                    ELSE last_items([j \in DOMAIN okx[2] |->
                                        round(frac(reversed(okx[2])[j], 1000), 2)], days)
        values == IF from_okx # << >> THEN from_okx
                  ELSE IF binance = None THEN << >>
                  ELSE [j \in DOMAIN binance[2] |-> round(frac(binance[2][j], 1000), 2)]
    IN  History("LongShort", values)

\* mutant: the empty history does not carry the requested name
get_indicator_history_anonymous(indicator_name, frame, days, e) ==
    IF indicator_name = "Ahr999" /\ frame # None
    THEN get_ahr999_history(frame[2], days, e.geo, e.exp_growth_value)
    ELSE IF indicator_name = "FearGreed"
    THEN get_fear_greed_history(e.fear_greed_history, days)
    ELSE IF indicator_name = "FundingRate"
    THEN get_funding_rate_history(e.funding_history, days)
    ELSE IF indicator_name = "LongShort"
    THEN get_long_short_history(e.long_short_okx_history,
                                e.long_short_binance_history, days)
    ELSE IF indicator_name = "Pi Cycle Top" /\ frame # None
    THEN get_pi_cycle_history(frame[2], days)
    ELSE IF indicator_name = "2-Year MA Mult" /\ frame # None
    THEN get_two_year_ma_history(frame[2], days)
    ELSE IF indicator_name = "200-Week Heatmap" /\ frame # None
    THEN get_200w_heatmap_history(frame[2], days)
    ELSE IF indicator_name = "Golden Ratio" /\ frame # None
    THEN get_golden_ratio_history(frame[2], days)
    ELSE History("unknown", << >>)

\* frame: None when no series is given, else Ok(s); e: the clock-derived
\* inputs and the answers of the history endpoints
get_indicator_history(indicator_name, frame, days, e) ==
    IF indicator_name = "Ahr999" /\ frame # None
    THEN get_ahr999_history(frame[2], days, e.geo, e.exp_growth_value)
    ELSE IF indicator_name = "FearGreed"
    THEN get_fear_greed_history(e.fear_greed_history, days)
    ELSE IF indicator_name = "FundingRate"
    THEN get_funding_rate_history(e.funding_history, days)
    ELSE IF indicator_name = "LongShort"
    THEN get_long_short_history(e.long_short_okx_history,
                                e.long_short_binance_history, days)
    ELSE IF indicator_name = "Pi Cycle Top" /\ frame # None
    THEN get_pi_cycle_history(frame[2], days)
    ELSE IF indicator_name = "2-Year MA Mult" /\ frame # None
    THEN get_two_year_ma_history(frame[2], days)
    ELSE IF indicator_name = "200-Week Heatmap" /\ frame # None
    THEN get_200w_heatmap_history(frame[2], days)
    ELSE IF indicator_name = "Golden Ratio" /\ frame # None
    THEN get_golden_ratio_history(frame[2], days)
    ELSE History(indicator_name, << >>)

(***************************************************************************)
(* SpecHist: the point-in-time values of the indicators that have a        *)
(* history projection, then one call of get_indicator_history on the same  *)
(* series; prev keeps the arguments of the call.                           *)
(***************************************************************************)
HistSeries == RunSeries \cup {generate_sample_data}

\* which endpoints are down: none, OKX only, all
HistOutages == {"none", "okx", "all"}

HistAnswer(outage, feed, v) ==
    IF outage = "all" \/ (outage = "okx" /\ feed = "okx") THEN None ELSE Ok(v)

\* the answers of the snapshot endpoints and of the history endpoints of one
\* market state: the newest entry of a history is the snapshot
HistEnvironment(outage, level) ==
    [ geo |-> Pick(level, 1, 2, 3),
      exp_growth_value |-> frac(Pick(level, 150, 60, 20), 1),
      fear_greed |-> HistAnswer(outage, "alternative", Pick(level, 20, 50, 80)),
      funding_binance |-> HistAnswer(outage, "binance", Pick(level, -5, 1, 12)),
      funding_coingecko |-> None,
      funding_bybit |-> None,
      long_short_okx |-> HistAnswer(outage, "okx", Pick(level, 45, 100, 210)),
      long_short_binance |-> HistAnswer(outage, "binance", Pick(level, 45, 100, 210)),
      fear_greed_history |->
          HistAnswer(outage, "alternative", <<Pick(level, 20, 50, 80), 40, 60>>),
      funding_history |->
          HistAnswer(outage, "binance",
                     << [day |-> 1, rate |-> 100], [day |-> 2, rate |-> 300],
                        [day |-> 2, rate |-> Pick(level, -500, 100, 1200)] >>),
      long_short_okx_history |->
          HistAnswer(outage, "okx", <<Pick(level, 450, 1000, 2100), 1004, 995>>),
      long_short_binance_history |->
          HistAnswer(outage, "binance", <<995, Pick(level, 450, 1000, 2100)>>) ]

HistEnvironments ==
    {HistEnvironment(outage, level) : outage \in HistOutages, level \in Levels}

\* the names get_indicator_history dispatches on, and one it does not know
HistNames ==
    {"Ahr999", "FearGreed", "FundingRate", "LongShort", "Pi Cycle Top",
     "2-Year MA Mult", "200-Week Heatmap", "Golden Ratio", "MACD"}

HistDays == {7, 30, 90}

InitHist ==
    /\ NoServer
    /\ pc = "hist_input"
    /\ df \in HistSeries
    /\ src \in HistEnvironments
    /\ indicators = EmptyDict
    /\ total_score = None
    /\ recommendation = "none"
    /\ prev = None
    /\ step = 0

\* the entries run_dashboard stores under the names that have a projection
PointInTime ==
    /\ pc = "hist_input"
    /\ indicators' =
          [ name \in HistNames \ {"MACD"} |->
              CASE name = "Ahr999" -> calc_ahr999(df, src.geo, src.exp_growth_value)
                [] name = "FearGreed" -> calc_fear_greed_index(src.fear_greed)
                [] name = "FundingRate" ->
                      calc_funding_rate(src.funding_binance, src.funding_coingecko,
                                        src.funding_bybit)
                [] name = "LongShort" ->
                      calc_long_short_ratio(src.long_short_okx, src.long_short_binance)
                [] name = "Pi Cycle Top" -> calc_pi_cycle(df)
                [] name = "2-Year MA Mult" -> calc_two_year_ma_multiplier(df)
                [] name = "200-Week Heatmap" -> calc_200w_ma_heatmap(df)
                [] name = "Golden Ratio" -> calc_golden_ratio_multiplier(df) ]
    /\ pc' = "point_done"
    /\ UNCHANGED <<df, src, total_score, recommendation, prev, step>>
    /\ UNCHANGED webvars

GetIndicatorHistory ==
    /\ pc = "point_done"
    /\ \E indicator_name \in HistNames, days \in HistDays, frame \in {None, Ok(df)} :
          /\ history' = get_indicator_history(indicator_name, frame, days, src)
          /\ prev' = [indicator_name |-> indicator_name, days |-> days,
                      df_given |-> frame # None]
    /\ pc' = "history_done"
    /\ UNCHANGED <<df, src, indicators, total_score, recommendation, step>>
    /\ UNCHANGED <<contacted, heap, threads, btc_data_cache, btc_data_timestamp, now>>

NextHist == PointInTime \/ GetIndicatorHistory

SpecHist == InitHist /\ [][NextHist]_vars

\* values[-1] of the history returned
LastValue == history.values[Len(history.values)]

\* the value run_dashboard stores under the name asked for
PointValue == indicators[prev.indicator_name].value

\* |a - b| <= 1e-9 * |b|
Close(a, b) ==
    \/ a = b
    \/ /\ ~isnan(a)
       /\ ~isnan(b)
       /\ b[2] # 0
       /\ LET x == div(sub(a, b), IF b[2] < 0 THEN Num(-b[2], b[3]) ELSE b)
              n == IF x[2] < 0 THEN -x[2] ELSE x[2]
          IN  x[3] \div 1000000000 >= n

\* C16: the last value of the history of a name equals the value the
\* point-in-time computation stores under that name for the same series,
\* within 1e-9 relative tolerance, for every window length.
C16_HistoryMatchesPoint ==
    (/\ pc = "history_done"
     /\ prev.df_given
     /\ prev.indicator_name \in DOMAIN indicators
     /\ history.values # << >>) => Close(LastValue, PointValue)

(***************************************************************************)
(* SpecFetch: fetch_btc_data one request at a time.  pc names the provider *)
(* about to be contacted, step is the Yahoo attempt, contacted logs every  *)
(* request with its outcome, df is the series returned.                    *)
(***************************************************************************)
\* the default of the parameter max_retries
max_retries == 3

\* a request that gave no series: an exception, a status other than 200, a
\* payload without rows, or Yahoo's rate-limit error
Failed(kind) == <<"failed", kind>>

\* one series per provider, to tell them apart
YahooAnswers ==
    { Failed("empty"), Failed("exception"), Failed("rate limited"),
      Ok(<<[n |-> 1100, p |-> 10], [n |-> 300, p |-> 40], [n |-> 100, p |-> 95]>>) }

CoinGeckoAnswers ==
    { Failed("status"), Failed("empty"), Failed("exception"),
      Ok(<<[n |-> 300, p |-> 50], [n |-> 65, p |-> 70]>>) }

BinanceAnswers ==
    { Failed("status"), Failed("exception"),
      Ok(<<[n |-> 900, p |-> 30], [n |-> 100, p |-> 80]>>) }

\* the provider whose failure skips the chain past the next one
fallback_skipping(provider) ==
    IF provider = "yahoo" THEN "binance" ELSE "sample"

\* the provider consulted once `provider` has failed
fallback(provider) ==
    IF provider = "yahoo" THEN "coingecko"
    ELSE IF provider = "coingecko" THEN "binance"
    ELSE "sample"

Contact(provider, answer) ==
    contacted' = Append(contacted, [provider |-> provider, answer |-> answer])

InitFetch ==
    /\ NoServer
    /\ pc = "yahoo"
    /\ df = << >>
    /\ src = None
    /\ indicators = EmptyDict
    /\ total_score = None
    /\ recommendation = "none"
    /\ prev = None
    /\ step = 0

\* mutant: a rate-limit error is retried like any other failure
TryYahooRetrying ==
    /\ pc = "yahoo"
    /\ step < max_retries
    /\ \E answer \in YahooAnswers :
          /\ Contact("yahoo", answer)
          /\ IF answer[1] = "ok"
             THEN df' = answer[2] /\ pc' = "returned" /\ step' = step
             ELSE /\ df' = df
                  /\ step' = step + 1
                  /\ pc' = IF step + 1 < max_retries THEN "yahoo" ELSE fallback("yahoo")
    /\ UNCHANGED <<src, indicators, total_score, recommendation, prev>>
    /\ UNCHANGED <<heap, threads, btc_data_cache, btc_data_timestamp, now, history>>

\* one pass of the retry loop: return the rows, or break on a rate limit, or
\* go round again until max_retries attempts are used up
TryYahoo ==
    /\ pc = "yahoo"
    /\ step < max_retries
    /\ \E answer \in YahooAnswers :
          /\ Contact("yahoo", answer)
          /\ IF answer[1] = "ok"
             THEN df' = answer[2] /\ pc' = "returned" /\ step' = step
             ELSE IF answer = Failed("rate limited")
             THEN df' = df /\ pc' = fallback("yahoo") /\ step' = step
             ELSE /\ df' = df
                  /\ step' = step + 1
                  /\ pc' = IF step + 1 < max_retries THEN "yahoo" ELSE fallback("yahoo")
    /\ UNCHANGED <<src, indicators, total_score, recommendation, prev>>
    /\ UNCHANGED <<heap, threads, btc_data_cache, btc_data_timestamp, now, history>>

TryCoinGecko ==
    /\ pc = "coingecko"
    /\ \E answer \in CoinGeckoAnswers :
          /\ Contact("coingecko", answer)
          /\ IF answer[1] = "ok"
             THEN df' = answer[2] /\ pc' = "returned"
             ELSE df' = df /\ pc' = fallback("coingecko")
    /\ UNCHANGED <<src, indicators, total_score, recommendation, prev, step>>
    /\ UNCHANGED <<heap, threads, btc_data_cache, btc_data_timestamp, now, history>>

TryBinance ==
    /\ pc = "binance"
    /\ \E answer \in BinanceAnswers :
          /\ Contact("binance", answer)
          /\ IF answer[1] = "ok"
             THEN df' = answer[2] /\ pc' = "returned"
             ELSE df' = df /\ pc' = fallback("binance")
    /\ UNCHANGED <<src, indicators, total_score, recommendation, prev, step>>
    /\ UNCHANGED <<heap, threads, btc_data_cache, btc_data_timestamp, now, history>>

\* return generate_sample_data()
UseSampleData ==
    /\ pc = "sample"
    /\ df' = generate_sample_data
    /\ pc' = "returned"
    /\ UNCHANGED <<src, indicators, total_score, recommendation, prev, step>>
    /\ UNCHANGED webvars

NextFetch == TryYahoo \/ TryCoinGecko \/ TryBinance \/ UseSampleData

SpecFetch == InitFetch /\ [][NextFetch]_vars

\* the place of a provider in the chain
Rank(provider) ==
    IF provider = "yahoo" THEN 1 ELSE IF provider = "coingecko" THEN 2 ELSE 3

Succeeded(i) == contacted[i].answer[1] = "ok"

\* some request to the provider of rank r was made before the i-th one
ContactedBefore(r, i) == \E j \in 1..(i - 1) : Rank(contacted[j].provider) = r

\* what the providers answered in the end, as the arguments of the chain
FinalAnswer(provider) ==
    IF \E i \in DOMAIN contacted : contacted[i].provider = provider /\ Succeeded(i)
    THEN contacted[Len(contacted)].answer
    ELSE None

\* C17: fetch_btc_data consults Yahoo Finance, CoinGecko and Binance in this
\* order, a provider only after every earlier one has been contacted and has
\* failed and none after a success; it returns the series of the first
\* provider that succeeds, and the sample series when all three have failed.
C17_OrderedFallback ==
    /\ \A i \in DOMAIN contacted :
          /\ \A j \in 1..(i - 1) :
                /\ ~Succeeded(j)
                /\ Rank(contacted[j].provider) <= Rank(contacted[i].provider)
          /\ \A r \in 1..(Rank(contacted[i].provider) - 1) : ContactedBefore(r, i)
    /\ pc = "returned" =>
          /\ df = fetch_btc_data(FinalAnswer("yahoo"), FinalAnswer("coingecko"),
                                 FinalAnswer("binance"))
          /\ IF \E i \in DOMAIN contacted : Succeeded(i)
             THEN df = contacted[Len(contacted)].answer[2]
             ELSE /\ df = generate_sample_data
                  /\ \A r \in 1..3 : ContactedBefore(r, Len(contacted) + 1)

\* Yahoo fails three times, CoinGecko and Binance fail, the sample series is
\* returned
C17_Witness ==
    /\ pc = "returned"
    /\ Len(contacted) = 5
    /\ \A i \in DOMAIN contacted : ~Succeeded(i)
    /\ df = generate_sample_data

(***************************************************************************)
(* SpecWeb: the web server of btc_web/app.py serving /api/history on       *)
(* threads that share the module globals and the cached DataFrame.  heap   *)
(* holds the DataFrame objects fetched, each with its rows and its set of  *)
(* columns; a thread refers to an object by its place in heap.  step       *)
(* counts the requests accepted; src holds the clock-derived inputs.       *)
(***************************************************************************)
Requests == {1, 2}

MaxRequests == 2

\* the instants at which the clock is read
ClockTimes == {400, 86500}

WebSeries ==
    { <<[n |-> 2, p |-> 20], [n |-> 1, p |-> 22]>>,
      <<[n |-> 300, p |-> 20], [n |-> 100, p |-> 60]>> }

WebNames == {"Ahr999", "Pi Cycle Top"}

\* the query parameter days
WebDays == {0, 7}

DataFrame(s) == [price |-> s, columns |-> {"price"}]

Idle ==
    [pc |-> "idle", indicator_name |-> "", days |-> 0, fetched |-> 0, df |-> 0,
     row |-> 0, result |-> None]

\* (datetime.now() - _btc_data_timestamp).seconds: the seconds within the
\* day of the difference, its whole days dropped
seconds(delta) == delta % 86400

\* the condition of get_cached_btc_data
cache_miss ==
    \/ btc_data_cache = None
    \/ btc_data_timestamp = None
    \/ seconds(now - btc_data_timestamp[2]) > 300

\* days = min(max(days, 7), 90)
clamp_days(days) ==
    LET at_least == IF days > 7 THEN days ELSE 7
    IN  IF at_least < 90 THEN at_least ELSE 90

InitWeb ==
    /\ pc = "serving"
    /\ df = << >>
    /\ src = [geo |-> 2, exp_growth_value |-> frac(60, 1),
              fear_greed_history |-> None, funding_history |-> None,
              long_short_okx_history |-> None, long_short_binance_history |-> None]
    /\ indicators = EmptyDict
    /\ total_score = None
    /\ recommendation = "none"
    /\ prev = None
    /\ step = 0
    /\ contacted = << >>
    /\ heap = << >>
    /\ threads = [t \in Requests |-> Idle]
    /\ btc_data_cache = None
    /\ btc_data_timestamp = None
    /\ now = 0
    /\ history = None

Update(t, fields) == threads' = [threads EXCEPT ![t] = fields]

WebFrame == <<pc, df, src, indicators, total_score, recommendation, prev,
              contacted, history>>

\* api_history is entered: days is read and clamped
AcceptRequest(t) ==
    /\ threads[t].pc = "idle"
    /\ step < MaxRequests
    /\ \E indicator_name \in WebNames, days \in WebDays :
          Update(t, [Idle EXCEPT !.pc = "check_cache",
                                 !.indicator_name = indicator_name,
                                 !.days = clamp_days(days)])
    /\ step' = step + 1
    /\ UNCHANGED <<heap, btc_data_cache, btc_data_timestamp, now>>
    /\ UNCHANGED WebFrame

\* get_cached_btc_data: the test of the cache
CheckCache(t) ==
    /\ threads[t].pc = "check_cache"
    /\ Update(t, [threads[t] EXCEPT !.pc = IF cache_miss THEN "fetch" ELSE "return_cache"])
    /\ UNCHANGED <<step, heap, btc_data_cache, btc_data_timestamp, now>>
    /\ UNCHANGED WebFrame

\* fetch_btc_data() returns a fresh DataFrame
FetchData(t) ==
    /\ threads[t].pc = "fetch"
    /\ \E s \in WebSeries : heap' = Append(heap, DataFrame(s))
    /\ Update(t, [threads[t] EXCEPT !.pc = "store_cache", !.fetched = Len(heap) + 1])
    /\ UNCHANGED <<step, btc_data_cache, btc_data_timestamp, now>>
    /\ UNCHANGED WebFrame

\* _btc_data_cache = <the DataFrame fetched>
StoreCache(t) ==
    /\ threads[t].pc = "store_cache"
    /\ btc_data_cache' = Ok(threads[t].fetched)
    /\ Update(t, [threads[t] EXCEPT !.pc = "store_timestamp"])
    /\ UNCHANGED <<step, heap, btc_data_timestamp, now>>
    /\ UNCHANGED WebFrame

\* _btc_data_timestamp = datetime.now()
StoreTimestamp(t) ==
    /\ threads[t].pc = "store_timestamp"
    /\ btc_data_timestamp' = Ok(now)
    /\ Update(t, [threads[t] EXCEPT !.pc = "return_cache"])
    /\ UNCHANGED <<step, heap, btc_data_cache, now>>
    /\ UNCHANGED WebFrame

\* return _btc_data_cache, and the dispatch of get_indicator_history
ReturnCache(t) ==
    /\ threads[t].pc = "return_cache"
    /\ Update(t, [threads[t] EXCEPT
                     !.df = btc_data_cache[2],
                     !.pc = IF threads[t].indicator_name = "Ahr999"
                            THEN "tail_copy" ELSE "project"])
    /\ UNCHANGED <<step, heap, btc_data_cache, btc_data_timestamp, now>>
    /\ UNCHANGED WebFrame

\* the projections that work on a copy, and the response
Project(t) ==
    /\ threads[t].pc = "project"
    /\ Update(t, [threads[t] EXCEPT
                     !.pc = "done",
                     !.result = Ok(get_indicator_history(threads[t].indicator_name,
                                       Ok(heap[threads[t].df].price),
                                       threads[t].days, src))])
    /\ UNCHANGED <<step, heap, btc_data_cache, btc_data_timestamp, now>>
    /\ UNCHANGED WebFrame

\* get_ahr999_history: recent_df = df.tail(days).copy()
TailCopy(t) ==
    /\ threads[t].pc = "tail_copy"
    /\ Update(t, [threads[t] EXCEPT !.pc = "set_log_price"])
    /\ UNCHANGED <<step, heap, btc_data_cache, btc_data_timestamp, now>>
    /\ UNCHANGED WebFrame

\* df[column] = ...: the column is added to the object itself
SetColumn(frame, column) == [frame EXCEPT !.columns = @ \cup {column}]

\* the exception leaves get_ahr999_history; api_history answers 500
Raise(t, error) ==
    Update(t, [threads[t] EXCEPT !.pc = "done", !.result = Failed(error)])

\* df['log_price'] = np.log(df['price'])
SetLogPrice(t) ==
    /\ threads[t].pc = "set_log_price"
    /\ heap' = [heap EXCEPT ![threads[t].df] = SetColumn(@, "log_price")]
    /\ Update(t, [threads[t] EXCEPT !.pc = "set_gmean200"])
    /\ UNCHANGED <<step, btc_data_cache, btc_data_timestamp, now>>
    /\ UNCHANGED WebFrame

\* df['gmean200'] = np.exp(df['log_price'].rolling(200).mean())
SetGmean200(t) ==
    /\ threads[t].pc = "set_gmean200"
    /\ IF "log_price" \in heap[threads[t].df].columns
       THEN /\ heap' = [heap EXCEPT ![threads[t].df] = SetColumn(@, "gmean200")]
            /\ Update(t, [threads[t] EXCEPT !.pc = "loop", !.row = 1])
       ELSE /\ heap' = heap
            /\ Raise(t, "KeyError")
    /\ UNCHANGED <<step, btc_data_cache, btc_data_timestamp, now>>
    /\ UNCHANGED WebFrame

\* one row of recent_df: ma200 = df.loc[date, 'gmean200']
ReadRow(t) ==
    /\ threads[t].pc = "loop"
    /\ IF "gmean200" \notin heap[threads[t].df].columns
       THEN Raise(t, "KeyError")
       ELSE IF threads[t].row < tail_rows(heap[threads[t].df].price, threads[t].days)
       THEN Update(t, [threads[t] EXCEPT !.row = @ + 1])
       ELSE Update(t, [threads[t] EXCEPT !.pc = "drop"])
    /\ UNCHANGED <<step, heap, btc_data_cache, btc_data_timestamp, now>>
    /\ UNCHANGED WebFrame

\* df.drop(columns=['log_price', 'gmean200'], inplace=True, errors='ignore')
\* and the response
DropColumns(t) ==
    /\ threads[t].pc = "drop"
    /\ heap' = [heap EXCEPT ![threads[t].df] =
                   [@ EXCEPT !.columns = @ \ {"log_price", "gmean200"}]]
    /\ Update(t, [threads[t] EXCEPT
                     !.pc = "done",
                     !.result = Ok(get_indicator_history("Ahr999",
                                       Ok(heap[threads[t].df].price),
                                       threads[t].days, src))])
    /\ UNCHANGED <<step, btc_data_cache, btc_data_timestamp, now>>
    /\ UNCHANGED WebFrame

\* the response is sent; the thread takes the next request
Respond(t) ==
    /\ threads[t].pc = "done"
    /\ step < MaxRequests
    /\ Update(t, Idle)
    /\ UNCHANGED <<step, heap, btc_data_cache, btc_data_timestamp, now>>
    /\ UNCHANGED WebFrame

\* time passes
Tick ==
    /\ \E t \in ClockTimes : t > now /\ now' = t
    /\ UNCHANGED <<step, heap, threads, btc_data_cache, btc_data_timestamp>>
    /\ UNCHANGED WebFrame

NextWeb ==
    \/ \E t \in Requests :
          \/ AcceptRequest(t)
          \/ CheckCache(t)
          \/ FetchData(t)
          \/ StoreCache(t)
          \/ StoreTimestamp(t)
          \/ ReturnCache(t)
          \/ Project(t)
          \/ TailCopy(t)
          \/ SetLogPrice(t)
          \/ SetGmean200(t)
          \/ ReadRow(t)
          \/ DropColumns(t)
          \/ Respond(t)
    \/ Tick

SpecWeb == InitWeb /\ [][NextWeb]_vars

\* C18: a DataFrame handed to the engine keeps its rows and its columns
\* while and after a projection runs on it: every object fetched has the one
\* column 'price' it was fetched with, at every step.
C18_SeriesNeverMutated ==
    \A i \in DOMAIN heap : heap[i].columns = {"price"}

\* what the request of thread t returns when it is served alone
Alone(t) ==
    get_indicator_history(threads[t].indicator_name,
                          Ok(heap[threads[t].df].price), threads[t].days, src)

\* C19: requests served concurrently from the same cached series each
\* complete without error and return what they return when served alone.
C19_ConcurrentSameAsAlone ==
    \A t \in DOMAIN threads :
        threads[t].pc = "done" =>
            /\ threads[t].result[1] = "ok"
            /\ threads[t].result[2] = Alone(t)

\* the threads that have seen a miss and have not yet stored what they fetch
Refilling ==
    {t \in DOMAIN threads : threads[t].pc \in {"fetch", "store_cache", "store_timestamp"}}

\* C20: the cache is refilled by one caller at a time: no two callers that
\* saw the same miss are both fetching.
C20_SingleFlight == Cardinality(Refilling) <= 1

(***************************************************************************)
(* The clock read by the indicators.  calc_halving_cycle, calc_ahr999 and  *)
(* calc_power_law take no date argument: each reads datetime.now() and     *)
(* derives its day count from it.  Dates are day numbers counted from      *)
(* GENESIS_DATE (2009-01-03).  The two growth curves 10 ** (B * log10(d) + *)
(* A) are represented by their first-order expansion around day 6000, in   *)
(* the price unit of the series of the model and rounded down to whole     *)
(* hundredths; they are non-decreasing in d, and a year apart they differ, *)
(* as the curves of the source do.                                         *)
(***************************************************************************)
HALVING_DATES == <<1425, 2744, 4146, 5586>>

\* (today - last_halving).days, last_halving the latest halving <= today
days_since_last_halving(today) ==
    LET past_halvings == {i \in DOMAIN HALVING_DATES : HALVING_DATES[i] <= today}
        last_halving == HALVING_DATES[CHOOSE i \in past_halvings :
                                         \A j \in past_halvings : j <= i]
    IN  today - last_halving

\* 10 ** (AHR999_B * log10(days) + AHR999_A), B = 5.84
growth_valuation(days_since_genesis) ==
    scale(frac(11, 1), 100 + (584 * (days_since_genesis - 6000)) \div 6000, 100)

\* 10 ** (POWER_LAW_INTERCEPT + POWER_LAW_SLOPE * log10(days)), slope 5.93
power_law_fair_value(days_since_genesis) ==
    scale(frac(5, 1), 100 + (593 * (days_since_genesis - 6000)) \div 6000, 100)

\* the three indicators that read the clock and one that does not,
\* evaluated on the series s when datetime.now() is the day `today`
evaluate_at(s, geo, today) ==
    [k \in {"HalvingCycle", "Ahr999", "PowerLaw", "Mayer Multiple"} |->
        CASE k = "HalvingCycle" -> calc_halving_cycle(days_since_last_halving(today))
          [] k = "Ahr999" -> calc_ahr999(s, geo, growth_valuation(today))
          [] k = "PowerLaw" -> calc_power_law(s, power_law_fair_value(today))
          [] OTHER -> calc_mayer_multiple(s)]

(***************************************************************************)
(* SpecClock: one series and one set of snapshots evaluated twice, the     *)
(* clock advancing (or not) between the evaluations.  `now` is the day of  *)
(* the latest evaluation, `prev` the outcome of the evaluation before it.  *)
(***************************************************************************)
ClockDays == {5900, 5951, 5952, 6316, 6317, 6516}

InitClock ==
    /\ NoServer
    /\ pc = "clock_input"
    /\ df \in RunSeries
    /\ src \in {[geo |-> g] : g \in {1, 3}}
    /\ indicators = EmptyDict
    /\ total_score = None
    /\ recommendation = "none"
    /\ prev = None
    /\ step = 0

Evaluate ==
    /\ step < 2
    /\ \E today \in ClockDays :
          /\ today >= now
          /\ now' = today
          /\ indicators' = evaluate_at(df, src.geo, today)
    /\ total_score' = calculate_total_score(indicators').score
    /\ recommendation' = calculate_total_score(indicators').recommendation
    /\ prev' = [indicators |-> indicators, total_score |-> total_score]
    /\ step' = step + 1
    /\ pc' = "evaluated"
    /\ UNCHANGED <<df, src>>
    /\ UNCHANGED <<contacted, heap, threads, btc_data_cache, btc_data_timestamp,
                   history>>

NextClock == Evaluate

SpecClock == InitClock /\ [][NextClock]_vars

\* C21: two evaluations of the same indicators, and of the aggregation over
\* them, on the same series and the same snapshots give the same value,
\* score and status for every indicator and the same total score, whenever
\* the two evaluations are performed.
C21_Deterministic ==
    step = 2 =>
        /\ \A k \in DOMAIN indicators :
              /\ indicators[k].value = prev.indicators[k].value
              /\ indicators[k].score = prev.indicators[k].score
              /\ indicators[k].status = prev.indicators[k].status
        /\ total_score = prev.total_score

\* C22: every entry of the indicators map of a dashboard result is keyed by
\* the name field of the result it holds, and that name is the identifier
\* looked up in the weight table.
C22_KeyedByName ==
    \A k \in DOMAIN indicators :
        /\ indicators[k].name = k
        /\ (k \in DOMAIN WEIGHTS <=> indicators[k].name \in DOMAIN WEIGHTS)

\* C23: the score of every indicator result lies within [-1, +1] (tenths:
\* [-10, +10]) whatever the series and the outcomes of the data sources,
\* and the total score of every dashboard result lies within [-1, +1].
C23_ScoreBounds ==
    /\ \A k \in DOMAIN indicators :
          indicators[k].score >= -10 /\ indicators[k].score <= 10
    /\ pc = "done" =>
          /\ total_score.den > 0
          /\ total_score.num >= -10 * total_score.den
          /\ total_score.num <= 10 * total_score.den

\* a finished run with votes at both ends of the range and a non-zero total
C23_Witness ==
    /\ pc = "done"
    /\ \E k \in DOMAIN indicators : indicators[k].score = 10
    /\ \E k \in DOMAIN indicators : indicators[k].score = -10
    /\ total_score.num # 0

\* C24: get_cached_btc_data serves the cached series without a fetch only
\* while the cache is at most 300 seconds old; whenever more time than that
\* has elapsed since the cache was stamped, gaps of more than a day
\* included, the call refetches.
C24_NeverStale ==
    [][\A t \in Requests :
          (threads[t].pc = "check_cache" /\ threads'[t].pc = "return_cache")
              => now - btc_data_timestamp[2] <= 300]_vars

(***************************************************************************)
(* SpecFetchLive: fetch_btc_data as a sequential function that keeps       *)
(* running: whenever a step of it is enabled, a step is eventually taken   *)
(* (every request returns or times out; time.sleep(1) ends).               *)
(***************************************************************************)
SpecFetchLive == SpecFetch /\ WF_vars(NextFetch)

\* the number of requests sent to a provider so far
Attempts(provider) ==
    Cardinality({i \in DOMAIN contacted : contacted[i].provider = provider})

\* C25: fetch_btc_data always terminates and returns a series: it makes at
\* most max_retries Yahoo attempts, none after a rate-limit error, then at
\* most one CoinGecko and at most one Binance attempt, and whatever the
\* providers answer (exception, non-200 status, empty payload) the call ends
\* by returning a non-empty series.
C25_TerminatesWithinBudget ==
    /\ [](/\ Attempts("yahoo") <= max_retries
          /\ Attempts("coingecko") <= 1
          /\ Attempts("binance") <= 1
          /\ \A i \in DOMAIN contacted :
                (contacted[i].provider = "yahoo"
                 /\ contacted[i].answer = Failed("rate limited"))
                    => \A j \in DOMAIN contacted :
                          j > i => contacted[j].provider # "yahoo"
          /\ pc \in {"yahoo", "coingecko", "binance", "sample", "returned"}
          /\ pc = "returned" => len(df) > 0)
    /\ <>(pc = "returned")

\* Yahoo fails once and is then rate limited, CoinGecko answers an empty
\* payload, Binance raises, and the call has returned
C25_Witness ==
    /\ pc = "returned"
    /\ Len(contacted) = 4
    /\ contacted[1].answer # Failed("rate limited")
    /\ contacted[2] = [provider |-> "yahoo", answer |-> Failed("rate limited")]
    /\ contacted[3] = [provider |-> "coingecko", answer |-> Failed("empty")]
    /\ contacted[4] = [provider |-> "binance", answer |-> Failed("exception")]

\* the names whose projector reads the price series, and those whose
\* projector asks an endpoint
SeriesBased ==
    {"Ahr999", "Pi Cycle Top", "2-Year MA Mult", "200-Week Heatmap", "Golden Ratio"}

NetworkBased == {"FearGreed", "FundingRate", "LongShort"}

\* the projector registered for a name, applied to the arguments of the call
Projector(name, s, days, e) ==
    CASE name = "Ahr999" -> get_ahr999_history(s, days, e.geo, e.exp_growth_value)
      [] name = "Pi Cycle Top" -> get_pi_cycle_history(s, days)
      [] name = "2-Year MA Mult" -> get_two_year_ma_history(s, days)
      [] name = "200-Week Heatmap" -> get_200w_heatmap_history(s, days)
      [] name = "Golden Ratio" -> get_golden_ratio_history(s, days)
      [] name = "FearGreed" -> get_fear_greed_history(e.fear_greed_history, days)
      [] name = "FundingRate" -> get_funding_rate_history(e.funding_history, days)
      [] name = "LongShort" ->
            get_long_short_history(e.long_short_okx_history,
                                   e.long_short_binance_history, days)

\* C26: get_indicator_history returns the empty history carrying the
\* requested name for every name that has no projector and for every
\* series-based name when no series is given; every other call returns what
\* the projector registered for the name returns.
C26_EmptyOrDispatched ==
    pc = "history_done" =>
        LET name == prev.indicator_name
        IN  IF \/ name \notin SeriesBased \cup NetworkBased
               \/ (name \in SeriesBased /\ ~prev.df_given)
            THEN history = [indicator |-> name, values |-> << >>]
            ELSE history = Projector(name, df, prev.days, src)

\* a series-based name requested without a series
C26_Witness ==
    /\ pc = "history_done"
    /\ prev.indicator_name = "Pi Cycle Top"
    /\ ~prev.df_given
    /\ history = [indicator |-> "Pi Cycle Top", values |-> << >>]

(***************************************************************************)
(* fetch_macro_calendar.  The function tests a cache kept in attributes of *)
(* its own function object: heap[1] is that object's attribute dictionary  *)
(* (empty after import; no statement of the repository assigns to it).     *)
(* An event of the feed is [country, impact, date], date an integer.       *)
(***************************************************************************)
\* the test of lines 2299-2302: TRUE when the cached calendar is returned
macro_cache_hit(attributes, clock) ==
    /\ "_macro_calendar_cache" \in DOMAIN attributes
    /\ attributes["_cache_time"] # None
    /\ clock - attributes["_cache_time"][2] < 1800
    /\ attributes["_cache"] # << >>

\* the events kept by the loop: USD events of high or medium impact
kept_events(events) ==
    SelectSeq(events, LAMBDA event : event.country = "USD"
                                     /\ event.impact \in {"High", "Medium"})

\* calendar.sort(key=date): a stable sort
RECURSIVE sort_by_date(_)
sort_by_date(calendar) ==
    IF calendar = << >> THEN << >>
    ELSE LET i == CHOOSE k \in DOMAIN calendar :
                     \A j \in DOMAIN calendar :
                         \/ calendar[k].date < calendar[j].date
                         \/ (calendar[k].date = calendar[j].date /\ k <= j)
         IN  <<calendar[i]>>
             \o sort_by_date(SubSeq(calendar, 1, i - 1)
                             \o SubSeq(calendar, i + 1, Len(calendar)))

\* the list returned once the requests are over: the sorted first 15 events
\* of a 200 response, else (or when none is kept) the one link entry
macro_calendar(response) ==
    LET calendar == IF response[1] = "ok"
                    THEN sort_by_date(kept_events(response[2]))
                    ELSE << >>
        first_15 == SubSeq(calendar, 1, IF Len(calendar) < 15 THEN Len(calendar) ELSE 15)
    IN  IF first_15 = << >> THEN <<[type |-> "link", date |-> 0]>> ELSE first_15

(***************************************************************************)
(* SpecCalendar: calls of fetch_macro_calendar one after the other.  step  *)
(* counts the calls, prev is the attempt of the retry loop, src the last   *)
(* response, history the calendar the last call returned, contacted the    *)
(* log of the requests sent (call, time, answer), now the clock in seconds.*)
(***************************************************************************)
MaxCalls == 2

\* seconds between the return of a call and the next call
Elapsed == {0, 60, 1799, 1800}

CalendarAnswers ==
    { Ok(<<[country |-> "USD", impact |-> "High", date |-> 3],
           [country |-> "EUR", impact |-> "High", date |-> 1],
           [country |-> "USD", impact |-> "Medium", date |-> 2]>>),
      Ok(<<[country |-> "USD", impact |-> "Low", date |-> 1]>>),
      Failed("429"), Failed("500"), Failed("exception") }

InitCalendar ==
    /\ pc = "idle"
    /\ df = << >>
    /\ src = None
    /\ indicators = EmptyDict
    /\ total_score = None
    /\ recommendation = "none"
    /\ prev = 0
    /\ step = 0
    /\ contacted = << >>
    /\ heap = <<EmptyDict>>
    /\ threads = << >>
    /\ btc_data_cache = None
    /\ btc_data_timestamp = None
    /\ now = 0
    /\ history = None

\* the call arrives and tests the cache
CallMacroCalendar ==
    /\ pc = "idle"
    /\ step < MaxCalls
    /\ \E elapsed \in Elapsed : now' = now + elapsed
    /\ step' = step + 1
    /\ IF macro_cache_hit(heap[1], now')
       THEN history' = heap[1]["_cache"] /\ pc' = "idle"
       ELSE history' = history /\ pc' = "requesting"
    /\ prev' = 0
    /\ UNCHANGED <<df, src, indicators, total_score, recommendation>>
    /\ UNCHANGED <<contacted, heap, threads, btc_data_cache, btc_data_timestamp>>

\* one pass of `for attempt in range(3)`: 200 and other statuses leave the
\* loop, 429 sleeps 5 * (attempt + 1) seconds and goes round again, an
\* exception leaves the try block
RequestCalendar ==
    /\ pc = "requesting"
    /\ \E answer \in CalendarAnswers :
          /\ contacted' = Append(contacted,
                                 [call |-> step, time |-> now, answer |-> answer])
          /\ src' = answer
          /\ IF answer = Failed("429")
             THEN /\ now' = now + 5 * (prev + 1)
                  /\ prev' = prev + 1
                  /\ pc' = IF prev + 1 < 3 THEN "requesting" ELSE "returning"
             ELSE now' = now /\ prev' = prev /\ pc' = "returning"
    /\ UNCHANGED <<df, indicators, total_score, recommendation, step>>
    /\ UNCHANGED <<heap, threads, btc_data_cache, btc_data_timestamp, history>>

\* the events are filtered and sorted and the calendar is returned
ReturnCalendar ==
    /\ pc = "returning"
    /\ history' = macro_calendar(src)
    /\ pc' = "idle"
    /\ UNCHANGED <<df, src, indicators, total_score, recommendation, prev, step>>
    /\ UNCHANGED <<contacted, heap, threads, btc_data_cache, btc_data_timestamp, now>>

NextCalendar == CallMacroCalendar \/ RequestCalendar \/ ReturnCalendar

SpecCalendar == InitCalendar /\ [][NextCalendar]_vars

\* C27: after a call of fetch_macro_calendar that fetched a calendar
\* successfully, a further call less than 1800 seconds later sends no
\* request: a request is sent again only once the cache is 30 minutes old
\* or empty.
C27_CachedForHalfAnHour ==
    \A i, j \in DOMAIN contacted :
        (/\ contacted[i].answer[1] = "ok"
         /\ kept_events(contacted[i].answer[2]) # << >>
         /\ contacted[i].call < contacted[j].call)
            => contacted[j].time - contacted[i].time >= 1800

\* the number of timeframes of a MACD result that voted `trend`
MacdCount(result, trend) ==
    Cardinality({i \in DOMAIN result.detail.timeframes :
                    result.detail.timeframes[i].trend = trend})

\* C28: the aggregate score of calc_macd is always one of -1, -0.5, 0, 0.5,
\* 1 (tenths: -10, -5, 0, 5, 10): the 'divergence' outcome (+-0.2) is never
\* produced, and the score is 0 only when no timeframe was evaluated or the
\* bullish and bearish counts are equal.
C28_MacdScores ==
    pc = "macd_done" =>
        LET r == indicators["MACD"]
        IN  /\ r.score \in {-10, -5, 0, 5, 10}
            /\ r.status # "divergence"
            /\ r.status # "insufficient data" =>
                  /\ MacdCount(r, "bull") + MacdCount(r, "bear") = r.detail.total
                  /\ r.score = 0 => MacdCount(r, "bull") = MacdCount(r, "bear")
                  /\ MacdCount(r, "bull") # MacdCount(r, "bear") => r.score # 0

\* three bullish timeframes of five: counts differ, ratio 0.6, score 0.5
C28_Witness ==
    /\ pc = "macd_done"
    /\ indicators["MACD"].status = "leaning bull"
    /\ indicators["MACD"].score = 5
    /\ indicators["MACD"].detail.total = 5
    /\ MacdCount(indicators["MACD"], "bull") = 3

\* the votes recorded under the timeframe tf by the RSI result
RsiVotes(tf) ==
    LET timeframes == indicators["RSI(14)"].detail.timeframes
    IN  {[rsi |-> timeframes[i].rsi, trend |-> timeframes[i].trend,
          score |-> timeframes[i].score] :
            i \in {j \in DOMAIN timeframes : timeframes[j].tf = tf}}

\* C29: in calc_rsi, for every series of at least 70 points, the votes
\* labelled '4H' and '12H' are computed from suffixes of the daily series
\* and fall in the same bucket with the same local score as the daily vote,
\* so that one daily classification gives three of at most six votes.
C29_IntradayVotesRepeatDaily ==
    (pc = "rsi_done" /\ len(df) >= 70) =>
        /\ RsiVotes("4H") = RsiVotes("1D")
        /\ RsiVotes("12H") = RsiVotes("1D")
        /\ Cardinality(RsiVotes("1D")) <= 1
        /\ indicators["RSI(14)"].detail.total <= 6

\* a series of at least 70 points whose daily vote is overbought, repeated
\* under '4H' and '12H'
C29_Witness ==
    /\ pc = "rsi_done"
    /\ len(df) >= 70
    /\ \E v \in RsiVotes("1D") : v.trend = "overbought"
    /\ RsiVotes("4H") # {}
    /\ RsiVotes("12H") # {}

(***************************************************************************)
(* EnhancedCryptoTrendStrategy.backtest (src/Crypto...py).  SpecBacktest   *)
(* runs the loop over the rows of the signals frame, one statement group   *)
(* at a time.  df is the rows read so far, each [close, signal,            *)
(* signal_strength]; step is the loop index i; src holds the arguments of  *)
(* the call and the initial capital; threads[1] holds the local variables  *)
(* of the loop; history is trades_log.  Amounts are exact rationals.       *)
(***************************************************************************)
MaxRows == 3

\* the defaults of the parameters stop_loss and take_profit
stop_loss == frac(5, 100)

take_profit == frac(15, 100)

BacktestArguments ==
    [initial_capital : {frac(100, 1)},
     commission : {frac(0, 1), frac(1, 10)},
     position_sizing : {"fixed", "signal_strength"}]

BacktestRows ==
    [close : {frac(9, 1), frac(10, 1), frac(12, 1)},
     signal : {-1, 0, 1},
     signal_strength : {frac(1, 2), frac(1, 1)}]

\* current_position as a float factor
signed(x, current_position) ==
    IF current_position < 0 THEN sub(frac(0, 1), x) ELSE x

InitBacktest ==
    /\ pc = "loop"
    /\ df = << >>
    /\ src \in BacktestArguments
    /\ indicators = EmptyDict
    /\ total_score = None
    /\ recommendation = "none"
    /\ prev = None
    /\ step = 0
    /\ contacted = << >>
    /\ heap = << >>
    /\ threads = <<[cash |-> src.initial_capital, holdings |-> frac(0, 1),
                    entry_price |-> frac(0, 1), entry_date |-> 0,
                    current_position |-> 0, position_size |-> frac(0, 1),
                    target_position_size |-> frac(1, 1),
                    portfolio_value |-> src.initial_capital]>>
    /\ btc_data_cache = None
    /\ btc_data_timestamp = None
    /\ now = 0
    /\ history = << >>

BacktestFrame ==
    <<indicators, total_score, recommendation, prev, contacted, heap,
      btc_data_cache, btc_data_timestamp, now>>

\* the head of the loop body: the row i is read and the target size chosen
\* (position_sizing 'fixed' gives 1.0, 'signal_strength' the row's strength)
ReadBar ==
    /\ pc = "loop"
    /\ step < MaxRows
    /\ \E row \in BacktestRows :
          /\ (src.position_sizing = "fixed" => row.signal_strength = frac(1, 1))
          /\ df' = Append(df, row)
          /\ threads' = <<[threads[1] EXCEPT !.target_position_size =
                              IF src.position_sizing = "signal_strength"
                              THEN row.signal_strength ELSE frac(1, 1)]>>
    /\ step' = step + 1
    /\ pc' = "check_exit"
    /\ UNCHANGED <<src, history>>
    /\ UNCHANGED BacktestFrame

\* pnl_pct = (current_price - entry_price) / entry_price * current_position
pnl_pct(l, current_price) ==
    signed(div(sub(current_price, l.entry_price), l.entry_price), l.current_position)

\* the condition of the stop-loss / take-profit exit
exit_due(l, current_price) ==
    /\ l.current_position # 0
    /\ \/ le(pnl_pct(l, current_price), sub(frac(0, 1), stop_loss))
       \/ ge(pnl_pct(l, current_price), take_profit)

\* cash += holdings * current_price * (1 - commission), for a long and for a
\* short alike; the position is cleared
close_position(l, current_price, commission) ==
    [l EXCEPT !.cash = add(l.cash, mul(mul(l.holdings, current_price),
                                       sub(frac(1, 1), commission))),
              !.holdings = frac(0, 1),
              !.current_position = 0,
              !.position_size = frac(0, 1)]

\* `if current_position != 0: ... if pnl_pct <= -stop_loss or ...`
CheckExit ==
    /\ pc = "check_exit"
    /\ LET l == threads[1]
           current_price == df[step].close
       IN  IF exit_due(l, current_price)
           THEN /\ threads' = <<close_position(l, current_price, src.commission)>>
                /\ history' = Append(history,
                       [entry_date |-> l.entry_date, exit_date |-> step,
                        entry_price |-> l.entry_price, exit_price |-> current_price,
                        position |-> l.current_position,
                        pnl |-> signed(mul(sub(current_price, l.entry_price),
                                           l.holdings), l.current_position),
                        reason |-> IF le(pnl_pct(l, current_price),
                                         sub(frac(0, 1), stop_loss))
                                   THEN "stop_loss" ELSE "take_profit"])
           ELSE UNCHANGED <<threads, history>>
    /\ pc' = "signal"
    /\ UNCHANGED <<df, src, step>>
    /\ UNCHANGED BacktestFrame

\* the long entry: the investment leaves the cash, the commission is taken
\* from the units bought
open_long(l, current_price, commission, date) ==
    LET investment == mul(l.cash, l.target_position_size)
    IN  [l EXCEPT !.position_size = l.target_position_size,
                  !.holdings = mul(div(investment, current_price),
                                   sub(frac(1, 1), commission)),
                  !.cash = sub(l.cash, investment),
                  !.entry_price = current_price,
                  !.entry_date = date,
                  !.current_position = 1]

\* the short entry: the cash is left as it is
open_short(l, current_price, date) ==
    [l EXCEPT !.position_size = l.target_position_size,
              !.holdings = div(mul(l.cash, l.target_position_size), current_price),
              !.entry_price = current_price,
              !.entry_date = date,
              !.current_position = -1]

\* `if signal == 1 and current_position == 0: ... elif signal == -1 and ...`
HandleSignal ==
    /\ pc = "signal"
    /\ LET l == threads[1]
           row == df[step]
       IN  threads' =
              IF row.signal = 1 /\ l.current_position = 0
              THEN <<open_long(l, row.close, src.commission, step)>>
              ELSE IF row.signal = -1 /\ l.current_position = 0
              THEN <<open_short(l, row.close, step)>>
              ELSE threads
    /\ pc' = "mark"
    /\ UNCHANGED <<df, src, step, history>>
    /\ UNCHANGED BacktestFrame

\* the value of the portfolio at a price
mark_to_market(l, current_price) ==
    IF l.current_position > 0 THEN add(l.cash, mul(l.holdings, current_price))
    ELSE IF l.current_position < 0
    THEN add(l.cash, mul(l.holdings, sub(l.entry_price, current_price)))
    ELSE l.cash

\* the update of portfolio_value and of the row i of the result frame
UpdatePortfolio ==
    /\ pc = "mark"
    /\ threads' = <<[threads[1] EXCEPT
                        !.portfolio_value = mark_to_market(threads[1], df[step].close)]>>
    /\ pc' = "loop"
    /\ UNCHANGED <<df, src, step, history>>
    /\ UNCHANGED BacktestFrame

NextBacktest == ReadBar \/ CheckExit \/ HandleSignal \/ UpdatePortfolio

SpecBacktest == InitBacktest /\ [][NextBacktest]_vars

\* C30: in backtest a position is opened only when none is open; whenever
\* no position is open (at the end of a row) holdings are 0 and the
\* portfolio value is the cash; and closing a long or a short position by
\* stop-loss or take-profit changes the portfolio value by the commission
\* only: the cash after the exit is the value of the portfolio at the exit
\* price less the commission on the amount closed.
C30_PositionAccounting ==
    /\ [][threads'[1].entry_date # threads[1].entry_date
            => threads[1].current_position = 0]_vars
    /\ []((pc = "loop" /\ threads[1].current_position = 0)
            => /\ threads[1].holdings = frac(0, 1)
               /\ threads[1].portfolio_value = threads[1].cash)
    /\ [][Len(history') > Len(history)
            => threads'[1].cash =
                  sub(mark_to_market(threads[1], df[step].close),
                      mul(mul(threads[1].holdings, df[step].close),
                          src.commission))]_vars

Spec == SpecAgg
====
